---- MODULE Spec2Model ----
(***************************************************************************)
(* State-machine model of the valuation acquisition pipeline of the NZ     *)
(* property flip calculator.                                               *)
(*                                                                         *)
(*   Spec       ConcurrentBrowserManager (app/providers/                   *)
(*              concurrent_browser_manager.py): asyncio tasks calling      *)
(*              fetch_with_browser and close_all_browsers.  An action is   *)
(*              the code a task runs between two suspension points of the  *)
(*              event loop (a contended semaphore acquire, asyncio.sleep). *)
(*   SpecFetch  the same manager with one caller that awaits each call,    *)
(*              over every URL, browser_id and page.                       *)
(*   SpecCache  CacheManager (backend/utils/cache_manager.py) driven by    *)
(*              the get-or-scrape block of analyze_properties              *)
(*              (backend/routes/analyze.py), one handler per request       *)
(*              thread.                                                    *)
(*   SpecSales  the recent-sales cache of CacheManager with the sales      *)
(*              scraper (backend/scrapers/sales_scraper.py).               *)
(*   SpecFetchFair  SpecFetch with the event loop resuming every coroutine *)
(*              whose sleep is over.                                       *)
(*   SpecProviders  the valuations ConcurrentBrowserManager,               *)
(*              PropertyValuationProvider and VirtualBrowserScraper return *)
(*              for every page, failure and day.                           *)
(*   SpecBatch  process_addresses / process_addresses_with_urls            *)
(*              (app/pipeline.py): one coroutine per input under gather.   *)
(*   SpecMatcher  SimilarPropertyMatcher and the target value of           *)
(*              analyze_properties.                                        *)
(*   SpecCalculator  PropertyFlipCalculator.calculate.                     *)
(*   SpecSolver  _calculate_recommended_pp, one pass of its loop at a time.*)
(*   SpecScorer  score_datapoints (app/scoring.py).                        *)
(*   SpecHttp   BaseScraper.get (backend/scrapers/base_scraper.py).        *)
(*   SpecIsolation  the manager with a caller that notes on which worker a *)
(*              fetch raised and where a live result followed.             *)
(*   SpecShutdown  the manager with a caller that calls close_all_browsers *)
(*              once and makes no fetch after it.                          *)
(***************************************************************************)
EXTENDS Integers, Sequences, FiniteSets, TLC

\* ------------------------------------------------------------------ bounds
NumTasks == 3      \* fetch_with_browser calls outstanding at one time
NumHandlers == 2   \* analyze_properties requests served at one time
MaxRows == 3       \* rows of the valuations table
MaxNow == 9        \* days the clock of the cache runs
MaxSales == 3      \* rows of the recent_sales table
MaxToday == 1      \* days the calendar of the providers runs
MaxBatch == 3      \* addresses in one batch of the pipeline
MaxListed == 1     \* sales handed to find_comparables
MaxComps == 2      \* cached sales of one analysis
MaxOutstanding == 2   \* fetches the caller of the shutdown and isolation runs keeps unanswered
NumPurchasePrices == 12   \* purchase prices calculate is applied to
NumTargetValues == 10     \* target values calculate is applied to

\* ------------------------------------------------------- program constants
rate_limit_delay == 2
CACHE_EXPIRY_DAYS == 7
max_concurrent_browsers == 2   \* the pool size the manager is constructed with

\* ------------------------------------------------------------- value space
None     == -1           \* Python None in a numeric field
NoneStr  == "<None>"     \* Python None in a string field
NoArg    == -1           \* browser_id = None in a call
NoDriver == 0            \* browser_pool[i] is None

VARIABLE today           \* the date of datetime.now(), as a day number

Tasks    == 1..NumTasks
Browsers == 0..(max_concurrent_browsers - 1)

\* A URL is its path segments and the seed int(md5(url)[:8], 16) of its text.
Urls ==
  { [parts |-> <<"commercial", "wellington", "thorndon">>, seed |-> 23],
    [parts |-> <<"listing", "5571595092">>,                seed |-> 42] }

\* A price string of a range match: digits and an optional K/M/B suffix.
PriceStr(n, s) == [num |-> n, suffix |-> s]

\* What the regular expressions of the parser find in a page, in match order.
\* NoPage is page_source = None.
NoPage == [ranges |-> <<>>, prices |-> <<>>, methods |-> <<>>, date |-> NoneStr, isNone |-> TRUE]
Pages ==
  { [ranges |-> << <<PriceStr(850, "K"), PriceStr(950, "K")>> >>, prices |-> <<>>,
     methods |-> <<"Auction on 12 Nov">>, date |-> "12/11/2025", isNone |-> FALSE],
    [ranges |-> << <<PriceStr(2, ""), PriceStr(3, "")>>,
                   <<PriceStr(950, "K"), PriceStr(850, "K")>> >>,
     prices |-> <<450, 720000>>,
     methods |-> <<>>, date |-> NoneStr, isNone |-> FALSE],
    [ranges |-> <<>>, prices |-> <<12000000>>, methods |-> <<>>,
     date |-> NoneStr, isNone |-> FALSE],
    [ranges |-> <<>>, prices |-> <<450>>, methods |-> <<>>,
     date |-> NoneStr, isNone |-> FALSE],
    [ranges |-> <<>>, prices |-> <<>>, methods |-> <<"abc", "Tender">>,
     date |-> NoneStr, isNone |-> FALSE],
    NoPage }

\* ------------------------------------------------- the synthetic estimate
\* `needle in url_lower` for the needles the estimate looks for.
SubstrOf(needle, segment) ==
  \/ segment = needle
  \/ needle = "land" /\ segment = "auckland"

UrlContains(url, needle) ==
  \E i \in 1..Len(url.parts) : SubstrOf(needle, url.parts[i])

CityOf(url) ==
  IF UrlContains(url, "auckland") THEN "auckland"
  ELSE IF UrlContains(url, "wellington") THEN "wellington"
  ELSE IF UrlContains(url, "christchurch") THEN "christchurch"
  ELSE IF UrlContains(url, "hamilton") THEN "hamilton"
  ELSE IF UrlContains(url, "tauranga") THEN "tauranga"
  ELSE IF UrlContains(url, "dunedin") THEN "dunedin"
  ELSE "auckland"

PropertyTypeOf(url) ==
  IF UrlContains(url, "commercial") THEN "commercial"
  ELSE IF UrlContains(url, "land") THEN "land"
  ELSE IF UrlContains(url, "apartment") THEN "apartment"
  ELSE IF UrlContains(url, "new-homes") THEN "new_home"
  ELSE "residential"

CityNames == {"auckland", "wellington", "christchurch", "hamilton", "tauranga", "dunedin"}

\* The segment after the first city segment, NoneStr when there is none.
SuburbOf(url) ==
  LET hits == {i \in 1..Len(url.parts) : url.parts[i] \in CityNames}
  IN IF hits = {} THEN NoneStr
     ELSE LET i == CHOOSE k \in hits : \A j \in hits : k <= j
          IN IF i + 1 <= Len(url.parts) THEN url.parts[i + 1] ELSE NoneStr

_get_base_price_for_city(city) ==
  CASE city = "auckland"     -> 1200000
    [] city = "wellington"   -> 950000
    [] city = "christchurch" -> 650000
    [] city = "hamilton"     -> 580000
    [] city = "tauranga"     -> 720000
    [] city = "dunedin"      -> 520000
    [] OTHER                 -> 650000

\* x * pct / 100, rounded half up (amounts are whole dollars).
Pct(x, pct) == (x * pct + 50) \div 100

\* The k-th draw of random.Random(seed).uniform(lo, hi), in whole percent:
\* a fixed function of the seed and the draw index with values in lo..hi.
Uniform(seed, k, lo, hi) == lo + ((seed * 7 + k * 3) % (hi - lo + 1))

\* strftime("%d/%m/%Y") of a day number.
strftime(day) == ToString(day)

_estimate_valuation_data_from_url(url, site_name) ==
  LET property_type == PropertyTypeOf(url)
      suburb        == SuburbOf(url)
      base0         == _get_base_price_for_city(CityOf(url))
      base1         == CASE property_type = "commercial" -> Pct(base0, 80)
                         [] property_type = "land"       -> Pct(base0, 60)
                         [] property_type = "apartment"  -> Pct(base0, 90)
                         [] property_type = "new_home"   -> Pct(base0, 110)
                         [] OTHER                        -> base0
      base_price    == IF suburb \in {"remuera", "ponsonby", "takapuna", "epsom", "herne bay"}
                         THEN Pct(base1, 130)
                       ELSE IF suburb \in {"thorndon", "kelburn", "wadestown"}
                         THEN Pct(base1, 120)
                       ELSE base1
      mid_price     == Pct(base_price, Uniform(url.seed, 1, 85, 115))
      low_price     == Pct(mid_price, Uniform(url.seed, 2, 80, 90))
      high_price    == Pct(mid_price, Uniform(url.seed, 3, 110, 120))
      last_sale     == Pct(mid_price, Uniform(url.seed, 4, 75, 105))
      days_ago      == Uniform(url.seed, 5, 60, 1095)
  IN [low |-> low_price, mid |-> mid_price, high |-> high_price,
      last_sale_price |-> last_sale,
      last_sale_date  |-> strftime(today - days_ago),
      source          |-> "URL Analysis (Concurrent Browser blocked)",
      method_of_sale  |-> "Estimated"]

\* ------------------------------------------------------------ page parsing
_convert_price_string(ps) ==
  CASE ps.suffix = "K" -> ps.num * 1000
    [] ps.suffix = "M" -> ps.num * 1000000
    [] ps.suffix = "B" -> ps.num * 1000000000
    [] OTHER           -> ps.num

\* The bounds without the comparison of the two ends.
RangeUnordered(low_price, high_price) ==
  /\ low_price # 0 /\ high_price # 0
  /\ low_price > 100000
  /\ low_price < 10000000 /\ high_price < 10000000

RangePlausible(low_price, high_price) ==
  /\ low_price # 0 /\ high_price # 0
  /\ low_price > 100000 /\ high_price > low_price
  /\ low_price < 10000000 /\ high_price < 10000000

\* The first match whose converted prices pass the bounds, <<>> when none does.
_extract_valuation_range(page) ==
  LET ok == {i \in 1..Len(page.ranges) :
               RangePlausible(_convert_price_string(page.ranges[i][1]),
                              _convert_price_string(page.ranges[i][2]))}
  IN IF ok = {} THEN <<>>
     ELSE LET i == CHOOSE k \in ok : \A j \in ok : k <= j
          IN <<_convert_price_string(page.ranges[i][1]),
               _convert_price_string(page.ranges[i][2])>>

\* The first figure above 100000, None when there is none.
_extract_general_price(page) ==
  LET ok == {i \in 1..Len(page.prices) : page.prices[i] > 100000}
  IN IF ok = {} THEN None
     ELSE page.prices[CHOOSE k \in ok : \A j \in ok : k <= j]

\* Sale-method phrases that carry one of the keywords the extractor accepts.
MethodKeyword(method) == method \in {"Auction on 12 Nov", "Tender"}
MethodLen(method) == IF method = "abc" THEN 3 ELSE 6

_extract_method_of_sale(page) ==
  LET ok == {i \in 1..Len(page.methods) :
               MethodLen(page.methods[i]) > 3 /\ MethodKeyword(page.methods[i])}
  IN IF page.isNone \/ ok = {} THEN NoneStr
     ELSE page.methods[CHOOSE k \in ok : \A j \in ok : k <= j]

_parse_page_content(page, url, site_name) ==
  IF page.isNone
    THEN \* re.findall(None) raises inside the try: the except branch
         LET estimated_data == _estimate_valuation_data_from_url(url, site_name)
             on_error == _extract_method_of_sale(page)
         IN IF on_error # NoneStr
              THEN [estimated_data EXCEPT !.method_of_sale = on_error]
              ELSE estimated_data
    ELSE
      LET method_of_sale  == _extract_method_of_sale(page)
          valuation_range == _extract_valuation_range(page)
          general         == _extract_general_price(page)
          mid_price == IF valuation_range # <<>>
                         THEN (valuation_range[1] + valuation_range[2]) \div 2
                         ELSE general
          low_price == IF valuation_range # <<>> THEN valuation_range[1]
                       ELSE IF general # None THEN Pct(general, 85) ELSE None
          high_price == IF valuation_range # <<>> THEN valuation_range[2]
                        ELSE IF general # None THEN Pct(general, 115) ELSE None
      IN IF mid_price # None /\ mid_price # 0
           THEN [low |-> low_price, mid |-> mid_price, high |-> high_price,
                 last_sale_price |-> mid_price,
                 last_sale_date  |-> page.date,
                 source          |-> "(Concurrent Browser - Live)",
                 method_of_sale  |-> method_of_sale]
           ELSE [_estimate_valuation_data_from_url(url, site_name)
                   EXCEPT !.method_of_sale = method_of_sale]

\* ------------------------------------------------- ConcurrentBrowserManager
\* Time is kept relative to the event-loop clock: the code reads
\* last_request_times only as loop.time() - last_time, compares it with
\* rate_limit_delay and sleeps for the difference, so the model keeps that
\* difference, saturated at rate_limit_delay, and the time a sleeper has left.
VARIABLES
  semaphore,      \* asyncio.Semaphore value: free execution slots
  browser_pool,   \* browser id -> session id, NoDriver when None
  browser_locks,  \* browser id -> the asyncio.Lock is held
  elapsed,        \* browser id -> min(loop.time() - last_request_times.get(id, 0), rate_limit_delay)
  pending,        \* <<url, browser_id>> -> calls made that wait for `async with self.semaphore`
  pc,             \* task -> where its fetch_with_browser call stands
  call,           \* task -> the arguments of its call
  browser_id,     \* task -> its browser_id once past the semaphore
  driver,         \* task -> the session _scrape_with_browser holds
  wait_left,      \* task -> seconds its rate-limit sleep has left
  quit_calls,     \* session id -> number of driver.quit() calls on it
  last_return,    \* what the step just taken handed the caller of fetch_with_browser
  last_close      \* what the step just taken did inside close_all_browsers

\* Session objects.  A scrape can still hold a session the pool has dropped,
\* and at most max_concurrent_browsers calls are past the semaphore, so
\* max_concurrent_browsers objects per browser are enough to name them all.
SessionsOf(b) == (b * max_concurrent_browsers + 1)..((b + 1) * max_concurrent_browsers)
Sessions == UNION {SessionsOf(b) : b \in Browsers}

NoData == [low |-> None, mid |-> None, high |-> None, last_sale_price |-> None,
           last_sale_date |-> NoneStr, source |-> NoneStr, method_of_sale |-> NoneStr]
AnyUrl == CHOOSE u \in Urls : TRUE
NoCall == [url |-> AnyUrl]
\* No call ended in the step: nothing was returned and nothing was raised.
NoReturn == [url |-> AnyUrl, failure |-> "", raised |-> FALSE, returned |-> FALSE,
             data |-> NoData]
\* close_all_browsers did not run in the step.
NoClose == [quits |-> [b \in Browsers |-> 0], errors |-> {}]

\* Where a call holds an execution slot: inside `async with self.semaphore`.
InFlight(t) == pc[t] \in {"rl_sleep", "settle", "scrolling", "final_scroll"}

\* The calls that have not entered the semaphore yet differ only in their
\* arguments; a call takes a task id when it enters.
CallArgs == Urls \X ({NoArg} \cup Browsers)
NumPending == LET RECURSIVE Sum(_)
                  Sum(S) == IF S = {} THEN 0
                            ELSE LET k == CHOOSE x \in S : TRUE
                                 IN pending[k] + Sum(S \ {k})
              IN Sum(CallArgs)
NumInFlight == Cardinality({t \in Tasks : InFlight(t)})
\* The task id a call entering the semaphore takes: the lowest one free.
Enters(t) == pc[t] = "idle" /\ \A t2 \in Tasks : t2 < t => pc[t2] # "idle"

InitBrowsersAt(e) ==
  /\ semaphore = max_concurrent_browsers
  /\ pending = [k \in CallArgs |-> 0]
  /\ browser_pool = [b \in Browsers |-> NoDriver]
  /\ browser_locks = [b \in Browsers |-> FALSE]
  /\ elapsed = [b \in Browsers |-> e]
  /\ pc = [t \in Tasks |-> "idle"]
  /\ call = [t \in Tasks |-> NoCall]
  /\ browser_id = [t \in Tasks |-> NoArg]
  /\ driver = [t \in Tasks |-> NoDriver]
  /\ wait_left = [t \in Tasks |-> 0]
  /\ quit_calls = [s \in Sessions |-> 0]
  /\ last_return = NoReturn
  /\ last_close = NoClose

\* last_request_times is empty, and loop.time() is any value of the monotonic
\* clock.
InitBrowsers == \E e \in 0..rate_limit_delay : InitBrowsersAt(e)

\* A semaphore that lets every caller in.
SemaphoreNeverLocked(value) == FALSE
\* A release that gives nothing back.
SemKeep(value) == value

\* asyncio.Semaphore: acquire blocks while the value is 0; release adds one.
SemaphoreLocked(value) == value = 0
SemAcquire(value) == value - 1
SemRelease(value) == value + 1

\* int(time.time() * 1000) % max_concurrent_browsers: any browser id.
_get_next_available_browser == Browsers

\* An except branch that lets the exception go on to the caller.
FetchReraise(url) ==
  [raised |-> TRUE, data |-> _estimate_valuation_data_from_url(url, "TradeMe")]

\* The except branch of fetch_with_browser.
FetchExcept(url) ==
  [raised |-> FALSE, data |-> _estimate_valuation_data_from_url(url, "TradeMe")]

\* A session object that nothing refers to any more is gone.
Live(quits, pool, drivers) ==
  [s \in Sessions |->
     IF (\E b \in Browsers : pool[b] = s) \/ (\E t \in Tasks : drivers[t] = s)
       THEN quits[s] ELSE 0]

\* The call of task t returns (or raises): its locals are gone.  `sem` is the
\* semaphore value while the call holds its slot.
Return(t, ret, sem) ==
  /\ last_return' = ret
  /\ pc' = [pc EXCEPT ![t] = "idle"]
  /\ call' = [call EXCEPT ![t] = NoCall]
  /\ browser_id' = [browser_id EXCEPT ![t] = NoArg]
  /\ driver' = [driver EXCEPT ![t] = NoDriver]
  /\ wait_left' = [wait_left EXCEPT ![t] = 0]
  /\ semaphore' = SemRelease(sem)

\* An except branch that takes every fetch in flight down with it.
FallbackCancelsAll(t, url, why, sem) ==
  /\ last_return' = [url |-> url, failure |-> why, raised |-> FALSE,
                     returned |-> TRUE, data |-> FetchExcept(url).data]
  /\ pc' = [t2 \in Tasks |-> "idle"]
  /\ call' = [t2 \in Tasks |-> NoCall]
  /\ browser_id' = [t2 \in Tasks |-> NoArg]
  /\ driver' = [t2 \in Tasks |-> NoDriver]
  /\ wait_left' = [t2 \in Tasks |-> 0]
  /\ semaphore' = max_concurrent_browsers

\* The call of task t ends in the except branch.
Fallback(t, url, why, sem) ==
  LET handled == FetchExcept(url)
  IN Return(t, [url |-> url, failure |-> why, raised |-> handled.raised,
                returned |-> ~handled.raised,
                data |-> IF handled.raised THEN NoData ELSE handled.data], sem)

\* _scrape_with_browser on browser b up to its first sleep; `pool` is the
\* browser pool it reads.
ScrapeStart(t, url, b, pool, sem, nav_ok) ==
  IF pool[b] = NoDriver
    THEN Fallback(t, url, "not_initialized", sem)
  ELSE IF ~nav_ok
    THEN Fallback(t, url, "navigation", sem)
  ELSE /\ pc' = [pc EXCEPT ![t] = "settle"]
       /\ driver' = [driver EXCEPT ![t] = pool[b]]
       /\ browser_id' = [browser_id EXCEPT ![t] = b]
       /\ wait_left' = [wait_left EXCEPT ![t] = 0]
       /\ semaphore' = sem
       /\ last_return' = NoReturn
       /\ call' = [call EXCEPT ![t] = [url |-> url]]

\* A call on the session of task t raises: the page or the driver fails, or
\* the session was quit.
ScriptRaises(t, fails) == fails \/ quit_calls[driver[t]] > 0

\* _enforce_rate_limit: how long the caller sleeps, 0 when it does not.
WaitTime(b) ==
  LET time_since_last == elapsed[b]
  IN IF time_since_last < rate_limit_delay
       THEN rate_limit_delay - time_since_last
       ELSE 0

\* self.last_request_times[browser_id] = loop.time()
RecordRequest(b) == elapsed' = [elapsed EXCEPT ![b] = 0]

\* fetch_with_browser is called: the coroutine is scheduled.  The caller
\* keeps at most `outstanding` calls unanswered.
Call(urls, ids, outstanding) ==
  /\ NumPending + NumInFlight < outstanding
  /\ \E u \in urls, arg \in {NoArg} \cup ids :
       pending' = [pending EXCEPT ![<<u, arg>>] = @ + 1]
  /\ last_return' = NoReturn
  /\ last_close' = NoClose
  /\ UNCHANGED <<semaphore, browser_pool, browser_locks, elapsed, pc, call,
                 browser_id, driver, wait_left, quit_calls>>

\* `if browser_id is None: browser_id = await self._get_next_available_browser()`
BrowserChoice(arg) ==
  IF arg = NoArg THEN _get_next_available_browser ELSE {arg}

\* The pending call with arguments k enters `async with self.semaphore` as task t.
Enter(t, k) ==
  /\ Enters(t)
  /\ pending[k] > 0
  /\ ~SemaphoreLocked(semaphore)
  /\ pending' = [pending EXCEPT ![k] = @ - 1]

\* The slot is acquired and _create_browser_instance raises.
AcquireCreateFails(t) ==
  /\ \E k \in CallArgs :
       /\ Enter(t, k)
       /\ \E b \in BrowserChoice(k[2]) :
            /\ ~browser_locks[b]
            /\ browser_pool[b] = NoDriver
       /\ Fallback(t, k[1], "create", SemAcquire(semaphore))
  /\ last_close' = NoClose
  /\ UNCHANGED <<browser_pool, browser_locks, elapsed, quit_calls>>

\* The session object _create_browser_instance returns: a fresh one.
NewSession(b) ==
  LET free == {s \in SessionsOf(b) : \A t \in Tasks : driver[t] # s}
  IN CHOOSE s \in free : \A s2 \in free : s <= s2

\* An _ensure_browser_initialized without the `is None` test.
EnsuredPoolAnew(b) == [browser_pool EXCEPT ![b] = NewSession(b)]

\* _ensure_browser_initialized: the pool after it.
EnsuredPool(b) ==
  IF browser_pool[b] = NoDriver
    THEN [browser_pool EXCEPT ![b] = NewSession(b)]
    ELSE browser_pool

\* The slot is acquired, the session is there or made, and the rate limit
\* makes the call sleep.
AcquireSleep(t) ==
  /\ \E k \in CallArgs, b \in Browsers :
       /\ Enter(t, k)
       /\ b \in BrowserChoice(k[2])
       /\ ~browser_locks[b]
       /\ WaitTime(b) > 0
       /\ call' = [call EXCEPT ![t] = [url |-> k[1]]]
       /\ browser_id' = [browser_id EXCEPT ![t] = b]
       /\ browser_pool' = EnsuredPool(b)
       /\ wait_left' = [wait_left EXCEPT ![t] = WaitTime(b)]
  /\ semaphore' = SemAcquire(semaphore)
  /\ pc' = [pc EXCEPT ![t] = "rl_sleep"]
  /\ last_return' = NoReturn
  /\ last_close' = NoClose
  /\ UNCHANGED <<browser_locks, elapsed, driver, quit_calls>>

\* The slot is acquired, the rate limit lets the call pass, and the scrape
\* runs to its first sleep.
AcquireGo(t) ==
  /\ \E k \in CallArgs, b \in Browsers, nav_ok \in BOOLEAN :
       /\ Enter(t, k)
       /\ b \in BrowserChoice(k[2])
       /\ ~browser_locks[b]
       /\ WaitTime(b) = 0
       /\ browser_pool' = EnsuredPool(b)
       /\ RecordRequest(b)
       /\ ScrapeStart(t, k[1], b, EnsuredPool(b), SemAcquire(semaphore), nav_ok)
  /\ last_close' = NoClose
  /\ UNCHANGED <<browser_locks, quit_calls>>

\* asyncio.sleep(wait_time) of _enforce_rate_limit returns.
RateLimitWake(t) ==
  /\ pc[t] = "rl_sleep"
  /\ wait_left[t] = 0
  /\ RecordRequest(browser_id[t])
  /\ \E nav_ok \in BOOLEAN :
       ScrapeStart(t, call[t].url, browser_id[t], browser_pool, semaphore, nav_ok)
  /\ last_close' = NoClose
  /\ UNCHANGED <<pending, browser_pool, browser_locks, quit_calls>>

\* The settle sleep returns: _gradual_scroll reads the height, scrolls and
\* sleeps.
ScrollBegin(t) ==
  /\ pc[t] = "settle"
  /\ \E fails \in BOOLEAN :
       IF ScriptRaises(t, fails)
         THEN Fallback(t, call[t].url, "scroll", semaphore)
         ELSE /\ pc' = [pc EXCEPT ![t] = "scrolling"]
              /\ last_return' = NoReturn
              /\ UNCHANGED <<call, browser_id, driver, wait_left, semaphore>>
  /\ quit_calls' = Live(quit_calls, browser_pool, driver')
  /\ last_close' = NoClose
  /\ UNCHANGED <<pending, browser_pool, browser_locks, elapsed>>

\* The sleep after a scroll returns, the page is not at its bottom yet, and
\* the loop scrolls on and sleeps again.
ScrollOn(t) ==
  /\ pc[t] = "scrolling"
  /\ ~ScriptRaises(t, FALSE)
  /\ last_return' = NoReturn
  /\ last_close' = NoClose
  /\ UNCHANGED <<semaphore, pending, browser_pool, browser_locks, elapsed, pc, call,
                 browser_id, driver, wait_left, quit_calls>>

\* The sleep after a scroll returns and new_position + 1000 >= new_height:
\* the loop scrolls to the bottom and sleeps; or a script call raises.
ScrollBottom(t) ==
  /\ pc[t] = "scrolling"
  /\ \E fails \in BOOLEAN :
       IF ScriptRaises(t, fails)
         THEN Fallback(t, call[t].url, "scroll", semaphore)
         ELSE /\ pc' = [pc EXCEPT ![t] = "final_scroll"]
              /\ last_return' = NoReturn
              /\ UNCHANGED <<call, browser_id, driver, wait_left, semaphore>>
  /\ quit_calls' = Live(quit_calls, browser_pool, driver')
  /\ last_close' = NoClose
  /\ UNCHANGED <<pending, browser_pool, browser_locks, elapsed>>

\* The sleep after the scroll to the bottom returns and the page has grown
\* (new_height_after_final_scroll # new_height): the while loop goes round.
ScrollGrew(t) ==
  /\ pc[t] = "final_scroll"
  /\ ~ScriptRaises(t, FALSE)
  /\ pc' = [pc EXCEPT ![t] = "scrolling"]
  /\ last_return' = NoReturn
  /\ last_close' = NoClose
  /\ UNCHANGED <<semaphore, pending, browser_pool, browser_locks, elapsed, call,
                 browser_id, driver, wait_left, quit_calls>>

\* The sleep after the scroll to the bottom returns and the height is the
\* same: the loop ends, the page scrolls back to the top, page_source is read
\* and parsed and the call returns the DataPoints; or a script call raises.
ScrapeFinish(t, pages) ==
  /\ pc[t] = "final_scroll"
  /\ \E fails \in BOOLEAN, page \in pages :
       IF ScriptRaises(t, fails)
         THEN Fallback(t, call[t].url, "scroll", semaphore)
         ELSE Return(t, [url |-> call[t].url, failure |-> "", raised |-> FALSE,
                         returned |-> TRUE,
                         data |-> _parse_page_content(page, call[t].url, "TradeMe")],
                     semaphore)
  /\ quit_calls' = Live(quit_calls, browser_pool, driver')
  /\ last_close' = NoClose
  /\ UNCHANGED <<pending, browser_pool, browser_locks, elapsed>>

\* A loop that a raising quit() ends.
CloseStops(quit_fails) == ~quit_fails

\* The pool after the try/except/finally around driver.quit() of browser i.
CloseFinally(pool, i, quit_fails) == [pool EXCEPT ![i] = NoDriver]
\* The for loop goes on to the next browser after a quit that raised.
CloseContinues(quit_fails) == TRUE

\* The for loop of close_all_browsers from browser i on; `raising` are the
\* browsers whose driver.quit() raises.  `log` counts the quit() calls.
RECURSIVE CloseLoop(_, _, _, _, _)
CloseLoop(i, pool, quits, log, raising) ==
  IF i >= max_concurrent_browsers
    THEN [pool |-> pool, quits |-> quits, log |-> log]
  ELSE IF pool[i] = NoDriver
    THEN CloseLoop(i + 1, pool, quits, log, raising)
  ELSE
    LET quits1 == [quits EXCEPT ![pool[i]] = @ + 1]
        log1   == [quits |-> [log.quits EXCEPT ![i] = @ + 1],
                   errors |-> IF i \in raising THEN log.errors \cup {i} ELSE log.errors]
        pool1  == CloseFinally(pool, i, i \in raising)
    IN IF CloseContinues(i \in raising)
         THEN CloseLoop(i + 1, pool1, quits1, log1, raising)
         ELSE [pool |-> pool1, quits |-> quits1, log |-> log1]

close_all_browsers(raising) ==
  /\ \A b \in Browsers : ~browser_locks[b]
  /\ LET after == CloseLoop(0, browser_pool, quit_calls, NoClose, raising)
     IN /\ browser_pool' = after.pool
        /\ quit_calls' = Live(after.quits, after.pool, driver)
        /\ last_close' = after.log
  /\ last_return' = NoReturn
  /\ UNCHANGED <<semaphore, pending, browser_locks, elapsed, pc, call, browser_id,
                 driver, wait_left>>

CloseAll == \E raising \in SUBSET Browsers : close_all_browsers(raising)

\* One second passes on the event-loop clock.
Tick ==
  /\ elapsed' = [b \in Browsers |->
                   IF elapsed[b] < rate_limit_delay THEN elapsed[b] + 1 ELSE elapsed[b]]
  /\ wait_left' = [t \in Tasks |-> IF wait_left[t] > 0 THEN wait_left[t] - 1 ELSE 0]
  /\ last_return' = NoReturn
  /\ last_close' = NoClose
  /\ UNCHANGED <<semaphore, pending, browser_pool, browser_locks, pc, call,
                 browser_id, driver, quit_calls>>

browserVars == <<semaphore, pending, browser_pool, browser_locks, elapsed, pc, call,
                 browser_id, driver, wait_left, quit_calls, last_return, last_close>>

\* ------------------------------- ConcurrentBrowserManager: what its caller saw
\* What a caller of the manager can tell from the calls it made and the
\* results it got; the manager keeps none of it.
VARIABLES
  isolation,      \* the workers a fetch raised on, and those that served a
                  \* live result after that
  shutdown        \* close_all_browsers has been called and has returned

observerVars == <<isolation, shutdown>>

InitObserver ==
  /\ isolation = [excepted |-> {}, live_after |-> {}]
  /\ shutdown = FALSE

\* The workers of the calls that end in the step.
EndedOn == {browser_id[t] : t \in {t2 \in Tasks : pc[t2] # "idle" /\ pc'[t2] = "idle"}}

\* The caller notes the except branch (the estimate of a failed fetch) and
\* the live result that follows one on the same worker.
ObserveReturn ==
  /\ isolation' =
       IF last_return'.failure # ""
         THEN [isolation EXCEPT !.excepted = @ \cup EndedOn]
       ELSE IF /\ last_return'.returned
               /\ last_return'.data.source = "(Concurrent Browser - Live)"
         THEN [isolation EXCEPT !.live_after = @ \cup (EndedOn \cap isolation.excepted)]
       ELSE isolation
  /\ UNCHANGED shutdown

\* The caller shuts the manager down, once, and makes no call after that.
ObserveClose ==
  /\ ~shutdown
  /\ shutdown' = TRUE
  /\ UNCHANGED isolation

\* ---------------------------------------------------------- CacheManager
VARIABLES
  now,            \* datetime.utcnow(), in days
  valuations,     \* the valuations table, in insertion order: row id = index
  hpc,            \* handler -> where its get-or-scrape block stands
  property_id,    \* handler -> the property it analyses
  valuation,      \* handler -> the row get_cached_valuation gave it, NoRow when None
  last_result     \* what the step just taken looked up or handed on

NoRow == 0
NoProperty == 0
Handlers == 1..NumHandlers
PropertyIds == {1, 2}
NoResult == [op |-> "", property_id |-> NoProperty, row |-> NoRow, scraped |-> FALSE]

cacheVars == <<now, valuations, hpc, property_id, valuation, last_result>>

InitCache ==
  /\ now = 0
  /\ valuations = <<>>
  /\ hpc = [h \in Handlers |-> "idle"]
  /\ property_id = [h \in Handlers |-> NoProperty]
  /\ valuation = [h \in Handlers |-> NoRow]
  /\ last_result = NoResult

\* A validity test that still accepts a row aged exactly CACHE_EXPIRY_DAYS.
is_cache_valid_inclusive(timestamp, utcnow) ==
  IF timestamp = None
    THEN FALSE
    ELSE timestamp >= utcnow - CACHE_EXPIRY_DAYS

\* expiry_date = utcnow() - timedelta(days=cache_expiry_days)
is_cache_valid(timestamp, utcnow) ==
  IF timestamp = None
    THEN FALSE
    ELSE LET expiry_date == utcnow - CACHE_EXPIRY_DAYS
         IN timestamp > expiry_date

\* A delta function that asks for an update every time.
needs_update_always(model_instance, utcnow) == TRUE

\* needs_update on a Valuation row (it has scraped_at, no updated_at).
needs_update(model_instance, utcnow) ==
  IF model_instance = NoRow
    THEN TRUE
    ELSE ~is_cache_valid(valuations[model_instance].scraped_at, utcnow)

\* Valuation.query.filter_by(property_id=property_id)
RowsOf(p) == {r \in 1..Len(valuations) : valuations[r].property_id = p}

\* The ascending order.
Follows(a, b) == a <= b

\* order_by(Valuation.scraped_at.desc()): a comes no later than b.
Precedes(a, b) == a >= b

\* .first(): the rows that can come first in the order.
First(p) ==
  {r \in RowsOf(p) :
     \A r2 \in RowsOf(p) : Precedes(valuations[r].scraped_at, valuations[r2].scraped_at)}

\* get_cached_valuation: what it can return at time utcnow.
get_cached_valuation(p, utcnow) ==
  IF RowsOf(p) = {}
    THEN {NoRow}
    ELSE {IF is_cache_valid(valuations[r].scraped_at, utcnow) THEN r ELSE NoRow :
            r \in First(p)}

\* save_valuation: the row it inserts.
save_valuation(p, utcnow) == [property_id |-> p, scraped_at |-> utcnow]

\* Rows the table can still get: every request under way adds at most one.
RoomForRequest ==
  Len(valuations) + Cardinality({h \in Handlers : hpc[h] # "idle"}) < MaxRows

\* A request reaches `valuation = cache_manager.get_cached_valuation(property_id)`.
Lookup(h) ==
  /\ hpc[h] = "idle"
  /\ RoomForRequest
  /\ \E p \in PropertyIds :
       \E v \in get_cached_valuation(p, now) :
         /\ property_id' = [property_id EXCEPT ![h] = p]
         /\ valuation' = [valuation EXCEPT ![h] = v]
         /\ last_result' = [op |-> "lookup", property_id |-> p, row |-> v,
                            scraped |-> FALSE]
  /\ hpc' = [hpc EXCEPT ![h] = "looked"]
  /\ UNCHANGED <<now, valuations>>

\* `if not valuation or cache_manager.needs_update(valuation):` then the
\* scraper is called, else the handler goes on with the row it has.
Check(h) ==
  /\ hpc[h] = "looked"
  /\ IF valuation[h] = NoRow \/ needs_update(valuation[h], now)
       THEN /\ hpc' = [hpc EXCEPT ![h] = "scraping"]
            /\ valuation' = [valuation EXCEPT ![h] = NoRow]
            /\ last_result' = NoResult
            /\ UNCHANGED property_id
       ELSE /\ hpc' = [hpc EXCEPT ![h] = "idle"]
            /\ last_result' = [op |-> "return", property_id |-> property_id[h],
                               row |-> valuation[h], scraped |-> FALSE]
            /\ property_id' = [property_id EXCEPT ![h] = NoProperty]
            /\ valuation' = [valuation EXCEPT ![h] = NoRow]
  /\ UNCHANGED <<now, valuations>>

\* valuation_scraper.scrape returns and save_valuation stores what it gave.
ScrapeSave(h) ==
  /\ hpc[h] = "scraping"
  /\ valuations' = Append(valuations, save_valuation(property_id[h], now))
  /\ last_result' = [op |-> "return", property_id |-> property_id[h],
                     row |-> Len(valuations) + 1, scraped |-> TRUE]
  /\ hpc' = [hpc EXCEPT ![h] = "idle"]
  /\ property_id' = [property_id EXCEPT ![h] = NoProperty]
  /\ valuation' = [valuation EXCEPT ![h] = NoRow]
  /\ UNCHANGED now

\* A day passes.
TickDay ==
  /\ now < MaxNow
  /\ now' = now + 1
  /\ last_result' = NoResult
  /\ UNCHANGED <<valuations, hpc, property_id, valuation>>

\* ------------------------------------------- CacheManager: recent sales
VARIABLES
  sales,          \* the recent_sales table, in insertion order
  spc,            \* where the comparable-sales block of the handler stands
  sales_key,      \* <<suburb, bedrooms>> the handler looks up
  last_sales      \* what the step just taken looked up or stored

salesVars == <<sales, spc, sales_key, last_sales>>

Suburbs == {"epsom", "thorndon"}
Bedrooms == {3}
NoKey == <<NoneStr, None>>
NoSales == [op |-> "", key |-> NoKey]

InitSales ==
  /\ sales = <<>>
  /\ spc = "idle"
  /\ sales_key = NoKey
  /\ last_sales = NoSales

\* What _parse_sale_listing returns for a listing it keeps: address,
\* bedrooms, floor_area, sale_price and sale_date, and no suburb.  The
\* bedrooms are those the listing text states, None when it states none.
ScrapedSales(bedrooms) ==
  {[bedrooms |-> b] : b \in {bedrooms, None}}

\* RecentSale(**sale_data, scraped_at=datetime.utcnow()): a column that
\* sale_data does not name stays NULL.  fetched_for records the key of the
\* request that stored the row; the program keeps no such column.
NewRecentSale(sale_data, key, utcnow) ==
  [suburb |-> NoneStr, bedrooms |-> sale_data.bedrooms, scraped_at |-> utcnow,
   fetched_for |-> key]

\* get_cached_sales: the rows it returns, {} when it returns None.
get_cached_sales(suburb, bedrooms, utcnow) ==
  LET cutoff_date == utcnow - 3 * 30
      found == {r \in 1..Len(sales) :
                  /\ sales[r].suburb = suburb
                  /\ sales[r].bedrooms = bedrooms
                  /\ sales[r].scraped_at > cutoff_date}
  IN IF found # {} /\ \A r \in found : is_cache_valid(sales[r].scraped_at, utcnow)
       THEN found
       ELSE {}

\* `if suburb and bedrooms: cached_sales = get_cached_sales(suburb, bedrooms)`
\* and the test that decides on a scrape.  needs_update(cached_sales[0]) is
\* False whenever get_cached_sales returned rows, all of them being valid.
SalesLookup ==
  /\ spc = "idle"
  /\ Len(sales) < MaxSales
  /\ \E suburb \in Suburbs, bedrooms \in Bedrooms :
       LET cached_sales == get_cached_sales(suburb, bedrooms, now)
       IN IF cached_sales = {}
            THEN /\ spc' = "scraping"
                 /\ sales_key' = <<suburb, bedrooms>>
                 /\ last_sales' = [op |-> "miss", key |-> <<suburb, bedrooms>>]
            ELSE /\ spc' = "idle"
                 /\ sales_key' = NoKey
                 /\ last_sales' = [op |-> "hit", key |-> <<suburb, bedrooms>>]
  /\ UNCHANGED <<sales, now>>

\* sales_scraper.scrape returns a list and save_sales stores it.
SalesScrapeSave ==
  /\ spc = "scraping"
  /\ \E sale_data \in ScrapedSales(sales_key[2]) :
       sales' = Append(sales, NewRecentSale(sale_data, sales_key, now))
  /\ last_sales' = [op |-> "saved", key |-> sales_key]
  /\ spc' = "idle"
  /\ sales_key' = NoKey
  /\ UNCHANGED now

\* sales_scraper.scrape returns None: nothing is stored.
SalesScrapeNone ==
  /\ spc = "scraping"
  /\ last_sales' = NoSales
  /\ spc' = "idle"
  /\ sales_key' = NoKey
  /\ UNCHANGED <<sales, now>>

\* A day passes.
SalesTickDay ==
  /\ now < MaxNow
  /\ now' = now + 1
  /\ last_sales' = NoSales
  /\ UNCHANGED <<sales, spc, sales_key>>

\* ------------------------------------------------------ valuation providers
\* PropertyValuationProvider (property_valuation.py) and VirtualBrowserScraper
\* (virtual_browser_scraper.py), next to the parser and the estimate of
\* ConcurrentBrowserManager above.
VARIABLES
  provided,       \* the valuation the call just made returned
  remembered      \* an earlier synthetic valuation, kept for comparison

providerVars == <<today, provided, remembered>>

\* An address is its words and the md5 of its text.
Addresses ==
  { [parts |-> <<"12", "queen", "st", "auckland">>, seed |-> 11],
    [parts |-> <<"3", "kea", "lane">>,              seed |-> 30] }

NoProvided == [provider |-> "", case |-> "", key |-> AnyUrl, data |-> NoData]

InitProviders ==
  /\ today = 0
  /\ provided = NoProvided
  /\ remembered = NoProvided

\* _get_base_price_for_city(address) of the providers: the first key of
\* city_prices that occurs in the address.
BasePriceForAddress(address) ==
  LET has(city) == \E i \in 1..Len(address.parts) : address.parts[i] = city
  IN CASE has("auckland")     -> 1200000
       [] has("wellington")   -> 950000
       [] has("christchurch") -> 650000
       [] has("hamilton")     -> 580000
       [] has("tauranga")     -> 720000
       [] has("dunedin")      -> 520000
       [] has("nelson")       -> 680000
       [] has("rotorua")      -> 450000
       [] has("remuera")      -> 1800000
       [] has("ponsonby")     -> 1600000
       [] has("takapuna")     -> 1700000
       [] has("epsom")        -> 1750000
       [] OTHER               -> 650000

\* _estimate_valuation_data(address) of PropertyValuationProvider and of
\* VirtualBrowserScraper: the two differ in the source string only.
_estimate_valuation_data(address, source) ==
  LET base_price == BasePriceForAddress(address)
      mid_price  == Pct(base_price, Uniform(address.seed, 1, 80, 120))
      low_price  == Pct(mid_price, Uniform(address.seed, 2, 75, 85))
      high_price == Pct(mid_price, Uniform(address.seed, 3, 115, 125))
      last_sale  == Pct(mid_price, Uniform(address.seed, 4, 70, 110))
      days_ago   == Uniform(address.seed, 5, 30, 1825)
  IN [low |-> low_price, mid |-> mid_price, high |-> high_price,
      last_sale_price |-> last_sale,
      last_sale_date  |-> strftime(today - days_ago),
      source          |-> source,
      method_of_sale  |-> NoneStr]

\* What r'\$([\d,]+)' finds in the page of a TradeMe endpoint.
TradeMeHtml == { <<>>, <<50000>>, <<1200000, 450000, 980000>> }

\* An endpoint that raises, or answers with a status other than 200.
EndpointError == <<None>>

\* prices.sort()
SortedPrices(prices) == SortSeq(prices, LAMBDA a, b : a < b)

\* PropertyValuationProvider._parse_trademe_html
_parse_trademe_html(price_matches, address) ==
  LET prices == SelectSeq(price_matches, LAMBDA p : p # 0 /\ p > 100000)
  IN IF prices # <<>>
       THEN LET sorted    == SortedPrices(prices)
                mid_price == sorted[(Len(sorted) \div 2) + 1]
            IN [low |-> Pct(mid_price, 85), mid |-> mid_price,
                high |-> Pct(mid_price, 115),
                last_sale_price |-> sorted[1],
                last_sale_date  |-> NoneStr,
                source          |-> "TradeMe Property",
                method_of_sale  |-> NoneStr]
       ELSE _estimate_valuation_data(address, "Estimated (TradeMe unavailable)")

\* PropertyValuationProvider._fetch_trademe_data: `responses` are what the
\* three endpoints answer.
RECURSIVE _fetch_trademe_data(_, _, _)
_fetch_trademe_data(address, responses, i) ==
  IF i > Len(responses)
    THEN [case |-> "unfetchable",
          data |-> _estimate_valuation_data(address, "Estimated (TradeMe unavailable)")]
  ELSE IF responses[i] = EndpointError
    THEN _fetch_trademe_data(address, responses, i + 1)
  ELSE LET valuation_data == _parse_trademe_html(responses[i], address)
       IN IF valuation_data.mid # None /\ valuation_data.mid # 0
            THEN [case |-> "page", data |-> valuation_data]
            ELSE _fetch_trademe_data(address, responses, i + 1)

\* PropertyValuationProvider.fetch
PVFetch ==
  /\ \E address \in Addresses,
        responses \in [1..3 -> TradeMeHtml \cup {EndpointError}] :
       LET got == _fetch_trademe_data(address, responses, 1)
       IN provided' = [provider |-> "PropertyValuationProvider", case |-> got.case,
                       key |-> address, data |-> got.data]
  /\ UNCHANGED <<today, remembered>>

\* VirtualBrowserScraper._extract_valuation_range
VBS_extract_valuation_range(page) ==
  LET ok == {i \in 1..Len(page.ranges) :
               LET low_price  == _convert_price_string(page.ranges[i][1])
                   high_price == _convert_price_string(page.ranges[i][2])
               IN /\ low_price # 0 /\ high_price # 0
                  /\ low_price >= 100000 /\ high_price >= 100000
                  /\ high_price > low_price
                  /\ high_price <= 10000000}
  IN IF ok = {} THEN <<>>
     ELSE LET i == CHOOSE k \in ok : \A j \in ok : k <= j
          IN <<_convert_price_string(page.ranges[i][1]),
               _convert_price_string(page.ranges[i][2])>>

\* The price loop of VirtualBrowserScraper._parse_page_content: mid_price is
\* assigned for every figure, the inner loop stops at the first figure above
\* 100000, and the outer loop stops when mid_price is set.
VBS_general_price(page) ==
  LET ok == {i \in 1..Len(page.prices) : page.prices[i] > 100000}
  IN IF ok # {} THEN page.prices[CHOOSE k \in ok : \A j \in ok : k <= j]
     ELSE IF page.prices # <<>> /\ page.prices[Len(page.prices)] # 0
       THEN page.prices[Len(page.prices)]
     ELSE None

\* VirtualBrowserScraper._estimate_valuation_data_from_url: the estimate of
\* the manager with another source and no method_of_sale.
VBS_estimate_valuation_data_from_url(url, site_name) ==
  [_estimate_valuation_data_from_url(url, site_name)
     EXCEPT !.source = "URL Analysis (Virtual Browser blocked)",
            !.method_of_sale = NoneStr]

\* VirtualBrowserScraper._parse_page_content
VBS_parse_page_content(page, url, site_name) ==
  IF page.isNone
    THEN VBS_estimate_valuation_data_from_url(url, site_name)
    ELSE
      LET method_of_sale  == _extract_method_of_sale(page)
          valuation_range == VBS_extract_valuation_range(page)
          general         == VBS_general_price(page)
          mid_price == IF valuation_range # <<>>
                         THEN (valuation_range[1] + valuation_range[2]) \div 2
                         ELSE general
          low_price == IF valuation_range # <<>> THEN valuation_range[1]
                       ELSE IF general # None THEN Pct(general, 85) ELSE None
          high_price == IF valuation_range # <<>> THEN valuation_range[2]
                        ELSE IF general # None THEN Pct(general, 115) ELSE None
      IN IF mid_price # None /\ mid_price # 0
           THEN [low |-> low_price, mid |-> mid_price, high |-> high_price,
                 last_sale_price |-> mid_price,
                 last_sale_date  |-> page.date,
                 source          |-> "(Virtual Browser - Live)",
                 method_of_sale  |-> method_of_sale]
           ELSE [VBS_estimate_valuation_data_from_url(url, site_name)
                   EXCEPT !.method_of_sale = method_of_sale]

\* VirtualBrowserScraper.fetch with a URL and a driver: _scrape_with_browser
\* returns what the page parses to, or the URL estimate when a call raises.
VBSFetchUrl ==
  /\ \E url \in Urls, raises \in BOOLEAN, page \in Pages :
       provided' =
         IF raises
           THEN [provider |-> "VirtualBrowserScraper", case |-> "unfetchable",
                 key |-> url,
                 data |-> VBS_estimate_valuation_data_from_url(url, "TradeMe")]
           ELSE [provider |-> "VirtualBrowserScraper", case |-> "page",
                 key |-> url,
                 data |-> VBS_parse_page_content(page, url, "TradeMe")]
  /\ UNCHANGED <<today, remembered>>

\* VirtualBrowserScraper.fetch without a URL, or without a driver.
VBSFetchAddress ==
  /\ \E address \in Addresses :
       provided' = [provider |-> "VirtualBrowserScraper", case |-> "no_url",
                    key |-> address,
                    data |-> _estimate_valuation_data(
                               address, "Estimated (Virtual Browser unavailable)")]
  /\ UNCHANGED <<today, remembered>>

\* ConcurrentBrowserManager.fetch_with_browser seen as a function of what the
\* browser does: the page it delivers, or a failure.
CBMFetch ==
  /\ \E url \in Urls, raises \in BOOLEAN, page \in Pages :
       provided' =
         IF raises
           THEN [provider |-> "ConcurrentBrowserManager", case |-> "unfetchable",
                 key |-> url, data |-> FetchExcept(url).data]
           ELSE [provider |-> "ConcurrentBrowserManager", case |-> "page",
                 key |-> url,
                 data |-> _parse_page_content(page, url, "TradeMe")]
  /\ UNCHANGED <<today, remembered>>

\* The caller keeps the valuation it just got.
Remember ==
  /\ provided # NoProvided
  /\ remembered = NoProvided
  /\ remembered' = provided
  /\ UNCHANGED <<today, provided>>

\* Midnight passes.
NextDay ==
  /\ today < MaxToday
  /\ today' = today + 1
  /\ provided' = NoProvided
  /\ UNCHANGED remembered

\* ------------------------------------------------------------- pipeline
\* process_addresses and process_addresses_with_urls (pipeline.py): one
\* coroutine `one` per input, joined by asyncio.gather.
VARIABLES
  bpc,            \* "idle", "gathering", "returned" or "raised"
  addresses,      \* the argument of the running or last batch
  one_state,      \* input index -> "running" or "done"
  gathered,       \* the list asyncio.gather builds
  completion      \* the input indexes in the order their coroutines ended

batchVars == <<bpc, addresses, one_state, gathered, completion>>

\* The inputs: an address with or without a TradeMe URL.
AddressData ==
  { [address |-> "12 queen st", trademe_url |-> ""],
    [address |-> "3 kea lane",  trademe_url |-> "https://trademe/listing/1"] }

RECURSIVE SeqsUpTo(_, _)
SeqsUpTo(S, n) ==
  IF n = 0 THEN {<<>>}
  ELSE LET shorter == SeqsUpTo(S, n - 1)
       IN shorter \cup {Append(q, x) : q \in shorter, x \in S}

NoScore == [address |-> NoneStr, merged |-> FALSE]

InitBatch ==
  /\ bpc = "idle"
  /\ addresses = <<>>
  /\ one_state = <<>>
  /\ gathered = <<>>
  /\ completion = <<>>

\* A list that takes the results as the coroutines end.
gather_as_completed(results, i, value) ==
  LET free == {j \in 1..Len(results) : results[j] = NoScore}
  IN [results EXCEPT ![CHOOSE j \in free : \A k \in free : j <= k] = value]

\* asyncio.gather puts the result of the i-th awaitable at position i.
gather(results, i, value) == [results EXCEPT ![i] = value]

\* process_addresses(addresses) / process_addresses_with_urls(addresses) up to
\* `await asyncio.gather(...)`: every coroutine is scheduled.
ProcessAddresses ==
  /\ bpc # "gathering"
  /\ \E batch \in SeqsUpTo(AddressData, MaxBatch) :
       /\ addresses' = batch
       /\ one_state' = [i \in 1..Len(batch) |-> "running"]
       /\ gathered' = [i \in 1..Len(batch) |-> NoScore]
  /\ bpc' = "gathering"
  /\ completion' = <<>>

\* one(address_data) returns its AddressScore; with a TradeMe URL the data of
\* the scraper is merged unless its fetch raised.
OneReturns(i) ==
  /\ bpc = "gathering"
  /\ i \in 1..Len(addresses)
  /\ one_state[i] = "running"
  /\ \E scraped \in BOOLEAN :
       /\ scraped => addresses[i].trademe_url # ""
       /\ gathered' = gather(gathered, i,
                             [address |-> addresses[i].address, merged |-> scraped])
  /\ one_state' = [one_state EXCEPT ![i] = "done"]
  /\ completion' = Append(completion, i)
  /\ UNCHANGED <<bpc, addresses>>

\* provider.fetch or score_datapoints raises in one(): gather passes the
\* first exception on and the batch function raises.
OneRaises(i) ==
  /\ bpc = "gathering"
  /\ i \in 1..Len(addresses)
  /\ one_state[i] = "running"
  /\ bpc' = "raised"
  /\ UNCHANGED <<addresses, one_state, gathered, completion>>

\* Every coroutine has ended: gather returns its list and the function
\* returns it.
BatchReturn ==
  /\ bpc = "gathering"
  /\ \A i \in 1..Len(addresses) : one_state[i] = "done"
  /\ bpc' = "returned"
  /\ UNCHANGED <<addresses, one_state, gathered, completion>>

\* ------------------------------------------------ SimilarPropertyMatcher
\* find_comparables and calculate_average_sale_price
\* (similar_property_matcher.py) and the target value of analyze_properties
\* (analyze.py).  A suburb is the sequence of its characters, <<>> for None
\* and for the empty string, which Python's `not` does not tell apart.
VARIABLES
  m_op,           \* "", "find" or "analyze": what ran last
  m_sales,        \* the sales it was given
  m_target,       \* the suburb, bedrooms and floor area of the target
  m_cv,           \* the capital value of the target
  comparables,    \* what find_comparables returned
  average,        \* what calculate_average_sale_price returned, None if not run
  tv,             \* the target value analyze_properties goes on with
  m_raised        \* the f-string of a print raised TypeError

matcherVars == <<m_op, m_sales, m_target, m_cv, comparables, average, tv, m_raised>>

Chars(str) ==
  CASE str = "epsom"  -> <<"e", "p", "s", "o", "m">>
    [] str = "Epsom"  -> <<"E", "p", "s", "o", "m">>
    [] str = " epsom" -> <<" ", "e", "p", "s", "o", "m">>
    [] str = "karori" -> <<"k", "a", "r", "o", "r", "i">>
    [] OTHER          -> <<>>

\* str.lower()
Lower(chars) ==
  [i \in 1..Len(chars) |-> IF chars[i] = "E" THEN "e" ELSE chars[i]]

\* str.strip()
RECURSIVE Strip(_)
Strip(chars) ==
  IF chars = <<>> THEN <<>>
  ELSE IF Head(chars) = " " THEN Strip(Tail(chars))
  ELSE IF chars[Len(chars)] = " " THEN Strip(SubSeq(chars, 1, Len(chars) - 1))
  ELSE chars

\* A comparison of the suburbs as they are.
_suburbs_match_exact(suburb1, suburb2) ==
  IF suburb1 = <<>> \/ suburb2 = <<>> THEN FALSE ELSE suburb1 = suburb2

\* SimilarPropertyMatcher._suburbs_match
_suburbs_match(suburb1, suburb2) ==
  IF suburb1 = <<>> \/ suburb2 = <<>> THEN FALSE
  ELSE Strip(Lower(suburb1)) = Strip(Lower(suburb2))

Abs(x) == IF x < 0 THEN 0 - x ELSE x

\* abs(floor_area - target_floor_area) / target_floor_area > 0.20
AreaDiffOver20Pct(floor_area, target_floor_area) ==
  5 * Abs(floor_area - target_floor_area) > target_floor_area

\* SimilarPropertyMatcher.find_comparables
find_comparables(sales_list, target_suburb, target_bedrooms, target_floor_area) ==
  SelectSeq(sales_list, LAMBDA sale :
    /\ _suburbs_match(sale.suburb, target_suburb)
    /\ sale.bedrooms = target_bedrooms
    /\ ~( /\ sale.floor_area # None /\ sale.floor_area # 0
          /\ target_floor_area # None /\ target_floor_area # 0
          /\ AreaDiffOver20Pct(sale.floor_area, target_floor_area) ))

\* SimilarPropertyMatcher.calculate_average_sale_price: the mean of the prices
\* that are neither None nor 0.
calculate_average_sale_price(comps) ==
  LET priced == SelectSeq(comps, LAMBDA sale : sale.sale_price # None /\ sale.sale_price # 0)
      RECURSIVE Total(_)
      Total(q) == IF q = <<>> THEN 0 ELSE Head(q).sale_price + Total(Tail(q))
  IN IF comps = <<>> \/ priced = <<>> THEN None
     ELSE Total(priced) \div Len(priced)

\* The sales find_comparables is applied to: suburbs in either case, padded,
\* another suburb and none; floor areas 25%, 20% and 15% off 100 and none.
ListedSales ==
  { [suburb |-> Chars(sub), bedrooms |-> b, floor_area |-> fa, sale_price |-> 600000] :
      sub \in {"epsom", "Epsom", " epsom", "karori", ""},
      b \in {3, 4}, fa \in {None, 75, 80, 85, 120, 125} }

Targets ==
  { [suburb |-> Chars(sub), bedrooms |-> 3, floor_area |-> fa] :
      sub \in {"epsom", ""}, fa \in {None, 100} }

\* The cached sales of an analysis of a 3-bedroom, 100 m2 property in Epsom.
CachedSales ==
  { [suburb |-> Chars("Epsom"), bedrooms |-> 3, floor_area |-> fa, sale_price |-> price] :
      fa \in {100, 125}, price \in {None, 0, 600000, 720000} }

CapitalValues == {None, 800000}

InitMatcher ==
  /\ m_op = ""
  /\ m_sales = <<>>
  /\ m_target = [suburb |-> <<>>, bedrooms |-> None, floor_area |-> None]
  /\ m_cv = None
  /\ comparables = <<>>
  /\ average = None
  /\ tv = None
  /\ m_raised = FALSE

\* matcher.find_comparables(sales, suburb, bedrooms, floor_area)
FindComparables ==
  \E sales_list \in SeqsUpTo(ListedSales, MaxListed), target \in Targets :
    /\ m_op' = "find"
    /\ m_sales' = sales_list
    /\ m_target' = target
    /\ comparables' = IF sales_list = <<>> THEN <<>>
                      ELSE find_comparables(sales_list, target.suburb,
                                            target.bedrooms, target.floor_area)
    /\ m_cv' = None /\ average' = None /\ tv' = None /\ m_raised' = FALSE

\* analyze_properties from `if cached_sales:` to the target value: the
\* comparables, their average, the fallback to 90% of CV; a print that
\* formats None with :.2f raises.
DetermineTargetValue ==
  \E cached_sales \in SeqsUpTo(CachedSales, MaxComps), cv \in CapitalValues :
    LET target == [suburb |-> Chars("epsom"), bedrooms |-> 3, floor_area |-> 100]
        comps  == IF cached_sales = <<>> THEN <<>>
                  ELSE find_comparables(cached_sales, target.suburb,
                                        target.bedrooms, target.floor_area)
        avg    == IF comps = <<>> THEN None ELSE calculate_average_sale_price(comps)
        fallback == IF cv # None /\ cv # 0 THEN (cv * 90) \div 100 ELSE None
    IN /\ m_op' = "analyze"
       /\ m_sales' = cached_sales
       /\ m_target' = target
       /\ m_cv' = cv
       /\ comparables' = comps
       /\ average' = avg
       /\ IF comps # <<>> /\ avg = None
            THEN tv' = None /\ m_raised' = TRUE
          ELSE IF avg # None /\ avg # 0
            THEN tv' = avg /\ m_raised' = FALSE
          ELSE tv' = fallback /\ m_raised' = (fallback = None)

\* ------------------------------------------------ PropertyFlipCalculator
\* calculate (calculator.py) with the rates of config.py.  Amounts are whole
\* dollars; the purchase prices and target values are chosen so that the
\* commission, the interest and the GST fractions are whole dollars too, and
\* the post-tax profit, which has two decimals then, is held in cents.
VARIABLES
  calculation,    \* the dict calculate returned last
  calc_raised     \* the exception the last call of calculate raised, or NoneStr

calculatorVars == <<calculation, calc_raised>>

GST_RATE == 15                      \* percent
TAX_RATE == 33                      \* percent
COMMISSION_RATE == 18               \* per mille
DEFAULT_INTEREST_RATE == 75         \* per mille a year
DEFAULT_RENOVATION_MONTHS == 6
DEFAULT_INSURANCE == 1800
DEFAULT_RENOVATION_BUDGET == 100000
DEFAULT_LEGAL_EXPENSES == 2500
DEFAULT_COUNCIL_RATES == 2000
MIN_PROFIT_THRESHOLD == 25000
TARGET_PROFIT_MIN == 25000
TARGET_PROFIT_MAX == 30000

NoCalculation == [is_viable |-> FALSE, recommended_pp |-> None, pp |-> 0]

InitCalculator == calculation = NoCalculation /\ calc_raised = NoneStr

PurchasePrices == {80 + 1840 * (240 + 10 * i) : i \in 0..(NumPurchasePrices - 1)}
TargetValues == {11500 * (60 + k) : k \in 0..(NumTargetValues - 1)}
InsuranceQuotes == {None, 2400}

\* x * (gst_rate / (1 + gst_rate))
GstPortion(x) == (x * GST_RATE) \div (100 + GST_RATE)
\* tv * commission_rate
Commission(amount) == (amount * COMMISSION_RATE) \div 1000
\* total_financed * (int_rate / 12) * renovation_months
InterestCost(total_financed, int_rate, renovation_months) ==
  (total_financed * int_rate * renovation_months) \div 12000
\* pre_tax_profit * (1 - tax_rate), in cents
PostTaxCents(pre_tax_profit) == pre_tax_profit * (100 - TAX_RATE)

\* The GST position with its sign turned.
net_gst_reversed(gst_payable, gst_claimable) == gst_claimable - gst_payable

\* net_gst = gst_payable - gst_claimable
net_gst(gst_payable, gst_claimable) == gst_payable - gst_claimable

\* pp_guess + adjustment, with adjustment = diff * 0.8, moved the other way.
adjusted_down(pp_guess, diff) == pp_guess - (diff * 8) \div 10

\* adjustment = diff * 0.8; pp_guess = pp_guess + adjustment
adjusted(pp_guess, diff) == pp_guess + (diff * 8) \div 10

\* One pass of the body of the for loop of _calculate_recommended_pp, in
\* whole dollars: the profit at pp_guess, whether it is close enough to
\* return, and the guess of the next pass.
LoopBody(pp_guess, tv_, target_post_tax, ins, rb, le, cr, rate) ==
  LET int_cost       == InterestCost(pp_guess + rb, rate[1], rate[2])
      gst_claimable  == GstPortion(pp_guess + rb + le)
      gst_payable    == GstPortion(tv_)
      gross_profit   == tv_ - pp_guess - rb - le - cr - ins - Commission(tv_) - int_cost
      pre_tax_profit == gross_profit - net_gst(gst_payable, gst_claimable)
      post_tax_profit == PostTaxCents(pre_tax_profit) \div 100
      diff           == post_tax_profit - target_post_tax
      moved          == adjusted(pp_guess, diff)
  IN [post_tax_profit |-> post_tax_profit,
      close      |-> Abs(diff) < 100,
      next_guess |-> IF moved < 0 THEN tv_ \div 10
                     ELSE IF moved > tv_ THEN (tv_ * 9) \div 10
                     ELSE moved]

\* PropertyFlipCalculator._calculate_recommended_pp: at most 100 rounds of
\* the damped correction of pp_guess.
RECURSIVE RecommendedLoop(_, _, _, _, _, _, _, _, _)
RecommendedLoop(pp_guess, rounds, tv_, target_post_tax, ins, rb, le, cr, rate) ==
  IF rounds = 0 THEN pp_guess
  ELSE
    LET body == LoopBody(pp_guess, tv_, target_post_tax, ins, rb, le, cr, rate)
    IN IF body.close THEN pp_guess
       ELSE RecommendedLoop(body.next_guess, rounds - 1, tv_, target_post_tax,
                            ins, rb, le, cr, rate)

_calculate_recommended_pp(tv_, target_post_tax, ins, rb, le, cr, rate) ==
  RecommendedLoop(tv_ \div 2, 100, tv_, target_post_tax, ins, rb, le, cr, rate)

\* PropertyFlipCalculator.calculate(pp, tv, ins=ins) with the other arguments
\* at their defaults.
calculate(pp, tv_, ins_arg) ==
  LET ins   == IF ins_arg = None THEN DEFAULT_INSURANCE ELSE ins_arg
      rb    == DEFAULT_RENOVATION_BUDGET
      le    == DEFAULT_LEGAL_EXPENSES
      cr    == DEFAULT_COUNCIL_RATES
      rate  == <<DEFAULT_INTEREST_RATE, DEFAULT_RENOVATION_MONTHS>>
      com            == Commission(tv_)
      int_cost       == InterestCost(pp + rb, rate[1], rate[2])
      gst_claimable  == GstPortion(pp + rb + le)
      gst_payable    == GstPortion(tv_)
      gross_profit   == tv_ - pp - rb - le - cr - ins - com - int_cost
      pre_tax_profit == gross_profit - net_gst(gst_payable, gst_claimable)
      post_tax_cents == PostTaxCents(pre_tax_profit)
      is_viable      == post_tax_cents >= 100 * MIN_PROFIT_THRESHOLD
      target_post_tax == (TARGET_PROFIT_MIN + TARGET_PROFIT_MAX) \div 2
      recommended_pp ==
        IF ~is_viable
          THEN _calculate_recommended_pp(tv_, target_post_tax, ins, rb, le, cr, rate)
          ELSE None
  IN [pp |-> pp, tv |-> tv_, ins |-> ins, rb |-> rb, le |-> le, cr |-> cr,
      com |-> com, int_cost |-> int_cost,
      gst_claimable |-> gst_claimable, gst_payable |-> gst_payable,
      net_gst |-> net_gst(gst_payable, gst_claimable),
      gross_profit |-> gross_profit, pre_tax_profit |-> pre_tax_profit,
      post_tax_profit_cents |-> post_tax_cents,
      is_viable |-> is_viable,
      recommended_pp |-> IF recommended_pp # None /\ recommended_pp # 0
                           THEN recommended_pp ELSE None]

\* calculator.calculate(pp=pp, tv=tv, ..., ins=ins, ...) of analyze_properties.
\* pp and tv have no default: with tv absent `tv * self.commission_rate`
\* raises TypeError, with pp absent `pp + rb` does, and nothing is returned.
Calculate ==
  \E pp \in PurchasePrices \cup {None}, tv_ \in TargetValues \cup {None},
     ins \in InsuranceQuotes :
    IF tv_ = None \/ pp = None
      THEN /\ calc_raised' = "TypeError"
           /\ calculation' = NoCalculation
      ELSE /\ calc_raised' = NoneStr
           /\ calculation' = calculate(pp, tv_, ins)

\* ------------------------------------ the recommended-price solver, by round
\* _calculate_recommended_pp run one pass of its loop at a time, with the
\* arguments calculate hands it when every optional argument is left out.
VARIABLE solver           \* the call: its position, tv, pp_guess and passes done

MaxRounds == 100          \* range(100)

SolverTargets == {100000, 170000, 575000, 4600000}

SolverIdle == [phase |-> "idle", tv |-> 0, pp_guess |-> 0, rounds |-> 0,
               result |-> None]

InitSolver == solver = SolverIdle

TargetPostTax == (TARGET_PROFIT_MIN + TARGET_PROFIT_MAX) \div 2

\* pp_guess = tv * 0.5
SolverStart ==
  /\ solver.phase # "running"
  /\ \E tv_ \in SolverTargets :
       solver' = [phase |-> "running", tv |-> tv_, pp_guess |-> tv_ \div 2,
                  rounds |-> 0, result |-> None]

\* One pass of the loop: return pp_guess when the profit is close enough,
\* else adjust it; after the last pass, return what the adjustment left.
SolverRound ==
  /\ solver.phase = "running"
  /\ LET body == LoopBody(solver.pp_guess, solver.tv, TargetPostTax,
                          DEFAULT_INSURANCE, DEFAULT_RENOVATION_BUDGET,
                          DEFAULT_LEGAL_EXPENSES, DEFAULT_COUNCIL_RATES,
                          <<DEFAULT_INTEREST_RATE, DEFAULT_RENOVATION_MONTHS>>)
     IN IF body.close
          THEN solver' = [solver EXCEPT !.phase = "returned",
                                        !.result = solver.pp_guess]
          ELSE IF solver.rounds + 1 = MaxRounds
            THEN solver' = [solver EXCEPT !.phase = "returned",
                                          !.pp_guess = body.next_guess,
                                          !.rounds = MaxRounds,
                                          !.result = body.next_guess]
            ELSE solver' = [solver EXCEPT !.pp_guess = body.next_guess,
                                          !.rounds = solver.rounds + 1]

\* ---------------------------------------------------------------- scoring
\* score_datapoints (app/scoring.py).  Scores are in thousandths of a point
\* and the margin ratio in ten-thousandths; the prices are chosen so that
\* both are whole numbers.
VARIABLES
  scored,         \* the DataPoints scored last and what score_datapoints returned
  margin_before   \* the margin ratio and margin score of the scoring before it

scorerVars == <<scored, margin_before>>

NoMargin == [margin_ratio |-> None, margin_score |-> None]

NotScored == [dp |-> [est_purchase_price |-> None, est_rehab_cost |-> None,
                      est_after_repair_value |-> None, days_on_market_avg |-> None],
              margin_ratio |-> None, margin_score |-> None, dom_score |-> None,
              final_score |-> None, returned |-> FALSE]

InitScorer == scored = NotScored /\ margin_before = NoMargin

\* The DataPoints handed to score_datapoints: every field absent, zero or
\* set; after-repair values that give margins of -5%, 0, 0.01%, 10%, 19.99%,
\* 20% and 25% on a cost of 470000.
ScoredDataPoints ==
  [est_purchase_price : {None, 0, 370000},
   est_rehab_cost : {None, 0, 100000},
   est_after_repair_value :
     {None, 0} \cup {50 * (10000 + j) : j \in {-500, 0, 1, 1000, 1999, 2000, 2500}},
   days_on_market_avg : {None, 0, 15, 16, 52, 89, 90, 120}]

\* `if x:` of an Optional[float]
Truthy(x) == x # None /\ x # 0

\* A margin score that keeps growing above a margin of 20%.
margin_sub_uncapped(margin_ratio) ==
  IF margin_ratio <= 0 THEN 0 ELSE 3 * margin_ratio

\* The margin branch of score_datapoints: 0.0, 6.0 or
\* 6.0 * (margin_ratio / 0.20).
margin_sub(margin_ratio) ==
  IF margin_ratio <= 0 THEN 0
  ELSE IF margin_ratio >= 2000 THEN 6000
  ELSE 3 * margin_ratio

\* The days-on-market branch: 1.5, 0.0 or 1.5 * (1 - (dom - 15) / 75), then
\* max(0.0, min(1.5, sub)).
dom_sub(dom) ==
  LET sub == IF dom <= 15 THEN 1500
             ELSE IF dom >= 90 THEN 0
             ELSE 1500 - 20 * (dom - 15)
      capped == IF sub > 1500 THEN 1500 ELSE sub
  IN IF capped < 0 THEN 0 ELSE capped

\* round(x, 1): to the nearest tenth of a point, a tie to the even tenth.
Round1(milli) ==
  LET down == (milli \div 100) * 100
      rest == milli - down
  IN IF rest < 50 THEN down
     ELSE IF rest > 50 THEN down + 100
     ELSE IF (down \div 100) % 2 = 0 THEN down ELSE down + 100

\* A final score that leaves the days on market out.
final_of_margin_only(margin_part, dom_part) ==
  LET score == margin_part
  IN Round1(IF score > 10000 THEN 10000 ELSE IF score < 0 THEN 0 ELSE score)

\* final_score = round(min(10.0, max(0.0, score)), 1)
final_of(margin_part, dom_part) ==
  LET score == margin_part + dom_part
  IN Round1(IF score > 10000 THEN 10000 ELSE IF score < 0 THEN 0 ELSE score)

\* score_datapoints(dp); the HTML report is written inside try/except.
score_datapoints(dp) ==
  LET has_prices == /\ Truthy(dp.est_purchase_price)
                    /\ Truthy(dp.est_rehab_cost)
                    /\ Truthy(dp.est_after_repair_value)
      total_cost == dp.est_purchase_price + dp.est_rehab_cost
      net_sale   == (dp.est_after_repair_value * 94) \div 100
      profit     == net_sale - total_cost
      has_margin == has_prices /\ total_cost > 0
      margin_ratio == IF has_margin THEN (profit * 10000) \div total_cost ELSE None
      margin_score == IF has_margin THEN margin_sub(margin_ratio) ELSE None
      dom_score  == IF dp.days_on_market_avg # None
                      THEN dom_sub(dp.days_on_market_avg) ELSE None
  IN [dp |-> dp, margin_ratio |-> margin_ratio, margin_score |-> margin_score,
      dom_score |-> dom_score,
      final_score |-> final_of(IF has_margin THEN margin_score ELSE 0,
                               IF dom_score # None THEN dom_score ELSE 0),
      returned |-> TRUE]

\* score, notes, breakdown = score_datapoints(dp)
Score ==
  /\ \E dp \in ScoredDataPoints : scored' = score_datapoints(dp)
  /\ margin_before' = IF scored.margin_score # None
                        THEN [margin_ratio |-> scored.margin_ratio,
                              margin_score |-> scored.margin_score]
                        ELSE margin_before

\* ------------------------------------------------------------ BaseScraper
\* BaseScraper.get (backend/scrapers/base_scraper.py): a blocking call, so
\* one action from the rate limit to the return or the raise.  Time is in
\* whole seconds.
VARIABLES
  since_last_request,   \* time.time() - last_request_time, up to min_delay
  http_log              \* what the last get did

httpVars == <<since_last_request, http_log>>

min_delay == 2
max_delay == 5
max_retries == 3

NoGet == [called |-> FALSE, outcomes |-> <<>>, rate_limit_sleeps |-> <<>>,
          attempts |-> 0, retry_sleeps |-> <<>>, returned |-> FALSE,
          raised |-> FALSE]

\* last_request_time = 0 against time.time()
InitHttp == since_last_request = min_delay /\ http_log = NoGet

\* What session.get and raise_for_status do at each attempt.
RequestOutcomes == [1..max_retries -> {"ok", "RequestException"}]

\* _enforce_rate_limit: the sleep it takes.
RateLimitSleeps ==
  IF since_last_request < min_delay THEN min_delay..max_delay ELSE {1}

\* A retry loop that gives up one attempt early.
IsLastAttemptEarly(attempt) == attempt >= max_retries - 2

\* `attempt < max_retries - 1` fails: the except branch re-raises.
IsLastAttempt(attempt) == ~(attempt < max_retries - 1)

\* The for loop of get from `attempt` on; retry_sleeps are the sleeps the
\* except branch would take.
RECURSIVE GetLoop(_, _, _, _)
GetLoop(attempt, outcomes, retry_sleeps, log) ==
  IF attempt >= max_retries
    THEN log
  ELSE IF outcomes[attempt + 1] = "ok"
    THEN [log EXCEPT !.attempts = attempt + 1, !.returned = TRUE]
  ELSE IF IsLastAttempt(attempt)
    THEN [log EXCEPT !.attempts = attempt + 1, !.raised = TRUE]
  ELSE GetLoop(attempt + 1, outcomes, retry_sleeps,
               [log EXCEPT !.retry_sleeps = Append(@, retry_sleeps[attempt + 1])])

\* BaseScraper.get(url)
Get ==
  \E outcomes \in RequestOutcomes, rate_limit_sleep \in RateLimitSleeps,
     retry_sleeps \in [1..(max_retries - 1) -> min_delay..max_delay] :
    LET log == GetLoop(0, outcomes, retry_sleeps,
                       [NoGet EXCEPT !.called = TRUE, !.outcomes = outcomes,
                                     !.rate_limit_sleeps = <<rate_limit_sleep>>])
    IN /\ http_log' = log
       /\ since_last_request' = IF log.retry_sleeps # <<>> THEN min_delay ELSE 0

\* A second passes between two requests.
HttpTick ==
  /\ since_last_request < min_delay
  /\ since_last_request' = since_last_request + 1
  /\ UNCHANGED http_log

\* ---------------------------------------------------------- specifications
vars == <<browserVars, cacheVars, salesVars, providerVars, batchVars,
          matcherVars, calculatorVars, scorerVars, httpVars, solver,
          observerVars>>

cacheRest == <<valuations, hpc, property_id, valuation, last_result>>
nonBrowserVars == <<cacheVars, salesVars, providerVars, batchVars,
                    matcherVars, calculatorVars, scorerVars, httpVars,
                    solver, observerVars>>
nonCacheVars == <<browserVars, salesVars, providerVars, batchVars,
                  matcherVars, calculatorVars, scorerVars, httpVars, solver,
                  observerVars>>
nonSalesVars == <<browserVars, cacheRest, providerVars, batchVars,
                  matcherVars, calculatorVars, scorerVars, httpVars, solver,
                  observerVars>>
nonProviderVars == <<browserVars, cacheVars, salesVars, batchVars,
                     matcherVars, calculatorVars, scorerVars, httpVars,
                     solver, observerVars>>
nonBatchVars == <<browserVars, cacheVars, salesVars, providerVars,
                  matcherVars, calculatorVars, scorerVars, httpVars, solver,
                  observerVars>>
nonMatcherVars == <<browserVars, cacheVars, salesVars, providerVars,
                    batchVars, calculatorVars, scorerVars, httpVars, solver,
                    observerVars>>
nonCalculatorVars == <<browserVars, cacheVars, salesVars, providerVars,
                       batchVars, matcherVars, scorerVars, httpVars, solver,
                       observerVars>>
nonScorerVars == <<browserVars, cacheVars, salesVars, providerVars,
                   batchVars, matcherVars, calculatorVars, httpVars, solver,
                   observerVars>>
nonHttpVars == <<browserVars, cacheVars, salesVars, providerVars, batchVars,
                 matcherVars, calculatorVars, scorerVars, solver,
                 observerVars>>
nonSolverVars == <<browserVars, cacheVars, salesVars, providerVars,
                   batchVars, matcherVars, calculatorVars, scorerVars,
                   httpVars, observerVars>>
nonObserverVars == <<browserVars, cacheVars, salesVars, providerVars,
                     batchVars, matcherVars, calculatorVars, scorerVars,
                     httpVars, solver>>

Init ==
  /\ InitBrowsers /\ InitCache /\ InitSales /\ InitProviders /\ InitBatch
  /\ InitMatcher /\ InitCalculator /\ InitScorer /\ InitHttp /\ InitSolver /\ InitObserver

\* Concurrent callers of one ConcurrentBrowserManager.
Next ==
  \/ Call({AnyUrl}, {0}, NumTasks) /\ UNCHANGED nonBrowserVars
  \/ \E t \in Tasks : AcquireCreateFails(t) /\ UNCHANGED nonBrowserVars
  \/ \E t \in Tasks : AcquireSleep(t) /\ UNCHANGED nonBrowserVars
  \/ \E t \in Tasks : AcquireGo(t) /\ UNCHANGED nonBrowserVars
  \/ \E t \in Tasks : RateLimitWake(t) /\ UNCHANGED nonBrowserVars
  \/ \E t \in Tasks : ScrollBegin(t) /\ UNCHANGED nonBrowserVars
  \/ \E t \in Tasks : ScrollOn(t) /\ UNCHANGED nonBrowserVars
  \/ \E t \in Tasks : ScrollBottom(t) /\ UNCHANGED nonBrowserVars
  \/ \E t \in Tasks : ScrollGrew(t) /\ UNCHANGED nonBrowserVars
  \/ \E t \in Tasks : ScrapeFinish(t, {NoPage}) /\ UNCHANGED nonBrowserVars
  \/ CloseAll /\ UNCHANGED nonBrowserVars
  \/ Tick /\ UNCHANGED nonBrowserVars

Spec == Init /\ [][Next]_vars

\* Everything but the manager and what its caller saw.
restVars == <<cacheVars, salesVars, providerVars, batchVars, matcherVars,
              calculatorVars, scorerVars, httpVars, solver>>

\* A page with a valuation range.
LivePage == CHOOSE page \in Pages : _extract_valuation_range(page) # <<>>

\* A caller with at most MaxOutstanding fetches unanswered, on pages with a
\* valuation range, that notes where a fetch raised.
NextIsolation ==
  \/ Call({AnyUrl}, {0}, MaxOutstanding) /\ ObserveReturn /\ UNCHANGED restVars
  \/ (\E t \in Tasks : AcquireCreateFails(t)) /\ ObserveReturn /\ UNCHANGED restVars
  \/ (\E t \in Tasks : AcquireSleep(t)) /\ ObserveReturn /\ UNCHANGED restVars
  \/ (\E t \in Tasks : AcquireGo(t)) /\ ObserveReturn /\ UNCHANGED restVars
  \/ (\E t \in Tasks : RateLimitWake(t)) /\ ObserveReturn /\ UNCHANGED restVars
  \/ (\E t \in Tasks : ScrollBegin(t)) /\ ObserveReturn /\ UNCHANGED restVars
  \/ (\E t \in Tasks : ScrollOn(t)) /\ ObserveReturn /\ UNCHANGED restVars
  \/ (\E t \in Tasks : ScrollBottom(t)) /\ ObserveReturn /\ UNCHANGED restVars
  \/ (\E t \in Tasks : ScrollGrew(t)) /\ ObserveReturn /\ UNCHANGED restVars
  \/ (\E t \in Tasks : ScrapeFinish(t, {LivePage})) /\ ObserveReturn /\ UNCHANGED restVars
  \/ Tick /\ ObserveReturn /\ UNCHANGED restVars

SpecIsolation == Init /\ [][NextIsolation]_vars

\* A caller that makes its fetches, calls close_all_browsers once while some
\* are queued or in flight, and makes no fetch after that.
NextShutdown ==
  \/ ~shutdown /\ Call({AnyUrl}, {0}, MaxOutstanding) /\ UNCHANGED nonBrowserVars
  \/ \E t \in Tasks : AcquireCreateFails(t) /\ UNCHANGED nonBrowserVars
  \/ \E t \in Tasks : AcquireSleep(t) /\ UNCHANGED nonBrowserVars
  \/ \E t \in Tasks : AcquireGo(t) /\ UNCHANGED nonBrowserVars
  \/ \E t \in Tasks : RateLimitWake(t) /\ UNCHANGED nonBrowserVars
  \/ \E t \in Tasks : ScrollBegin(t) /\ UNCHANGED nonBrowserVars
  \/ \E t \in Tasks : ScrollOn(t) /\ UNCHANGED nonBrowserVars
  \/ \E t \in Tasks : ScrollBottom(t) /\ UNCHANGED nonBrowserVars
  \/ \E t \in Tasks : ScrollGrew(t) /\ UNCHANGED nonBrowserVars
  \/ \E t \in Tasks : ScrapeFinish(t, {LivePage}) /\ UNCHANGED nonBrowserVars
  \/ Tick /\ UNCHANGED nonBrowserVars
  \/ CloseAll /\ ObserveClose /\ UNCHANGED restVars

SpecShutdown == Init /\ [][NextShutdown]_vars

\* A caller that awaits each fetch_with_browser before the next, with every
\* URL, browser_id and page, while close_all_browsers can run at any time.
NextFetch ==
  \/ Call(Urls, Browsers, 1) /\ UNCHANGED nonBrowserVars
  \/ \E t \in Tasks : AcquireCreateFails(t) /\ UNCHANGED nonBrowserVars
  \/ \E t \in Tasks : AcquireSleep(t) /\ UNCHANGED nonBrowserVars
  \/ \E t \in Tasks : AcquireGo(t) /\ UNCHANGED nonBrowserVars
  \/ \E t \in Tasks : RateLimitWake(t) /\ UNCHANGED nonBrowserVars
  \/ \E t \in Tasks : ScrollBegin(t) /\ UNCHANGED nonBrowserVars
  \/ \E t \in Tasks : ScrollOn(t) /\ UNCHANGED nonBrowserVars
  \/ \E t \in Tasks : ScrollBottom(t) /\ UNCHANGED nonBrowserVars
  \/ \E t \in Tasks : ScrollGrew(t) /\ UNCHANGED nonBrowserVars
  \/ \E t \in Tasks : ScrapeFinish(t, Pages) /\ UNCHANGED nonBrowserVars
  \/ CloseAll /\ UNCHANGED nonBrowserVars
  \/ Tick /\ UNCHANGED nonBrowserVars

SpecFetch == Init /\ [][NextFetch]_vars

\* The event loop resumes a coroutine whose sleep is over, and its clock
\* runs; what the page does when the coroutine looks at it is not constrained.
Resume(t) ==
  /\ \/ RateLimitWake(t)
     \/ ScrollBegin(t)
     \/ ScrollBottom(t)
     \/ ScrollGrew(t)
     \/ ScrapeFinish(t, Pages)
  /\ UNCHANGED nonBrowserVars

SpecFetchFair ==
  /\ Init
  /\ [][NextFetch]_vars
  /\ \A t \in Tasks : WF_vars(Resume(t))
  /\ WF_vars(Tick /\ UNCHANGED nonBrowserVars)

\* Request threads of analyze_properties on one valuations table.
InitCacheSpec ==
  /\ InitBrowsersAt(rate_limit_delay)
  /\ InitCache /\ InitSales /\ InitProviders /\ InitBatch /\ InitMatcher
  /\ InitCalculator /\ InitScorer /\ InitHttp /\ InitSolver /\ InitObserver

NextCache ==
  \/ \E h \in Handlers : Lookup(h) /\ UNCHANGED nonCacheVars
  \/ \E h \in Handlers : Check(h) /\ UNCHANGED nonCacheVars
  \/ \E h \in Handlers : ScrapeSave(h) /\ UNCHANGED nonCacheVars
  \/ TickDay /\ UNCHANGED nonCacheVars

SpecCache == InitCacheSpec /\ [][NextCache]_vars

\* The comparable-sales block of analyze_properties, one request at a time.
NextSales ==
  \/ SalesLookup /\ UNCHANGED nonSalesVars
  \/ SalesScrapeSave /\ UNCHANGED nonSalesVars
  \/ SalesScrapeNone /\ UNCHANGED nonSalesVars
  \/ SalesTickDay /\ UNCHANGED nonSalesVars

SpecSales == InitCacheSpec /\ [][NextSales]_vars

\* Calls of the valuation providers, one at a time, over the days.
NextProviders ==
  \/ CBMFetch /\ UNCHANGED nonProviderVars
  \/ PVFetch /\ UNCHANGED nonProviderVars
  \/ VBSFetchUrl /\ UNCHANGED nonProviderVars
  \/ VBSFetchAddress /\ UNCHANGED nonProviderVars
  \/ Remember /\ UNCHANGED nonProviderVars
  \/ NextDay /\ UNCHANGED nonProviderVars

SpecProviders == InitCacheSpec /\ [][NextProviders]_vars

\* Batches of the pipeline, one after the other.
NextBatch ==
  \/ ProcessAddresses /\ UNCHANGED nonBatchVars
  \/ \E i \in 1..MaxBatch : OneReturns(i) /\ UNCHANGED nonBatchVars
  \/ \E i \in 1..MaxBatch : OneRaises(i) /\ UNCHANGED nonBatchVars
  \/ BatchReturn /\ UNCHANGED nonBatchVars

SpecBatch == InitCacheSpec /\ [][NextBatch]_vars

\* Applications of the matcher and of the target-value step.
NextMatcher ==
  \/ FindComparables /\ UNCHANGED nonMatcherVars
  \/ DetermineTargetValue /\ UNCHANGED nonMatcherVars

SpecMatcher == InitCacheSpec /\ [][NextMatcher]_vars

\* Applications of the calculator.
NextCalculator == Calculate /\ UNCHANGED nonCalculatorVars

SpecCalculator == InitCacheSpec /\ [][NextCalculator]_vars

\* Applications of the scorer.
NextScorer == Score /\ UNCHANGED nonScorerVars

SpecScorer == InitCacheSpec /\ [][NextScorer]_vars

\* Requests of one scraper, one after the other.
NextHttp ==
  \/ Get /\ UNCHANGED nonHttpVars
  \/ HttpTick /\ UNCHANGED nonHttpVars

SpecHttp == InitCacheSpec /\ [][NextHttp]_vars

\* One call of _calculate_recommended_pp after another; the loop is straight
\* code, so a call that has started keeps running.
NextSolver ==
  \/ SolverStart /\ UNCHANGED nonSolverVars
  \/ SolverRound /\ UNCHANGED nonSolverVars

SpecSolver ==
  /\ InitCacheSpec
  /\ [][NextSolver]_vars
  /\ WF_vars(SolverRound /\ UNCHANGED nonSolverVars)

\* ------------------------------------------------------------------ claims

\* C1: fetch_with_browser never propagates a failure to its caller.  When
\* browser creation, the session lookup, navigation or scrolling raises, the
\* call returns a DataPoints whose low, mid and high are the values
\* _estimate_valuation_data_from_url computes from the URL.
C1_FailureReturnsEstimate ==
  last_return.failure # "" =>
    /\ last_return.returned
    /\ ~last_return.raised
    /\ last_return.data.low # None
    /\ last_return.data.mid # None
    /\ last_return.data.high # None
    /\ last_return.data.low =
         _estimate_valuation_data_from_url(last_return.url, "TradeMe").low
    /\ last_return.data.mid =
         _estimate_valuation_data_from_url(last_return.url, "TradeMe").mid
    /\ last_return.data.high =
         _estimate_valuation_data_from_url(last_return.url, "TradeMe").high

\* A script call of the scroll raised and the call returned the estimate.
C1_Witness ==
  /\ last_return.failure = "scroll"
  /\ last_return.returned
  /\ last_return.data.mid # None

\* C2: at most max_concurrent_browsers calls are between acquiring and
\* releasing an execution slot; the calls beyond that wait at the semaphore.
C2_AtMostPoolSizeInFlight ==
  /\ NumInFlight <= max_concurrent_browsers
  /\ semaphore >= 0

\* Every slot is taken and a further call is waiting.
C2_Witness ==
  /\ NumInFlight = max_concurrent_browsers
  /\ semaphore = 0
  /\ NumPending > 0

\* C3: two calls that hold execution slots at the same time never operate on
\* the same browser_id, whether the coordinator chose it or the caller
\* passed it.
C3_NoSharedBrowser ==
  \A t1, t2 \in Tasks :
    (t1 # t2 /\ InFlight(t1) /\ InFlight(t2)) => browser_id[t1] # browser_id[t2]

\* C4: for every browser, a rate-limit wait completes no sooner than
\* rate_limit_delay seconds after the wait before it on that browser
\* completed, whatever the interleaving of the callers.
C4_RateLimitSpacing ==
  [][\A t \in Tasks :
       (pc[t] = "rl_sleep" /\ pc'[t] # "rl_sleep")
         => elapsed[browser_id[t]] >= rate_limit_delay]_vars

\* C5: every call gives its execution slot back, on the normal return and
\* on the fallback path: the free slots and the calls in flight add up to
\* max_concurrent_browsers, so with no call in flight every slot is free.
C5_SlotsReleased ==
  /\ semaphore + NumInFlight = max_concurrent_browsers
  /\ (NumInFlight = 0 => semaphore = max_concurrent_browsers)

\* A call that took the fallback path returned and every slot is free again.
C5_Witness ==
  /\ last_return.returned
  /\ last_return.failure = "navigation"
  /\ NumInFlight = 0
  /\ semaphore = max_concurrent_browsers

\* C6: close_all_browsers calls quit() once on every session the pool holds,
\* goes on after a quit() that raises, and leaves every pool entry empty; a
\* session is never quit twice, and an entry that is empty is not quit.
C6_CloseAllQuitsEachOnce ==
  [][CloseAll =>
       /\ \A b \in Browsers : browser_pool'[b] = NoDriver
       /\ \A b \in Browsers :
            last_close'.quits[b] = IF browser_pool[b] # NoDriver THEN 1 ELSE 0
       /\ \A s \in Sessions : quit_calls'[s] <= 1]_vars

\* The quit() of browser 0 raised and browser 1 was quit all the same.
C6_Witness ==
  /\ 0 \in last_close.errors
  /\ \A b \in Browsers : last_close.quits[b] = 1
  /\ \A b \in Browsers : browser_pool[b] = NoDriver

\* The latest scraped_at of the rows of property p.
LatestScrapedAt(p) ==
  LET stamps == {valuations[r].scraped_at : r \in RowsOf(p)}
  IN CHOOSE m \in stamps : \A x \in stamps : x <= m

\* C7: a get-or-scrape for a property that has a row stored less than
\* CACHE_EXPIRY_DAYS ago gets a stored row of that age from the lookup, and
\* goes on with that row: the table, and so the row's scraped_at, stays as
\* it is and the scraper is not called.
C7_WithinExpiryReturnsStored ==
  [][\A h \in Handlers :
       /\ (/\ hpc[h] = "idle"
           /\ hpc'[h] = "looked"
           /\ \E r \in RowsOf(property_id'[h]) :
                now - valuations[r].scraped_at < CACHE_EXPIRY_DAYS)
          => /\ valuation'[h] \in RowsOf(property_id'[h])
             /\ now - valuations[valuation'[h]].scraped_at < CACHE_EXPIRY_DAYS
             /\ valuations' = valuations
       /\ (/\ hpc[h] = "looked"
           /\ hpc'[h] # "looked"
           /\ valuation[h] # NoRow
           /\ now - valuations[valuation[h]].scraped_at < CACHE_EXPIRY_DAYS)
          => /\ hpc'[h] = "idle"
             /\ valuations' = valuations
             /\ last_result' = [op |-> "return", property_id |-> property_id[h],
                                row |-> valuation[h], scraped |-> FALSE]]_vars

\* A request went on with a stored row without a scrape.
C7_Witness ==
  /\ last_result.op = "return"
  /\ ~last_result.scraped
  /\ last_result.row \in RowsOf(last_result.property_id)
  /\ now - valuations[last_result.row].scraped_at < CACHE_EXPIRY_DAYS

\* C8: a get-or-scrape made after scraped_at + CACHE_EXPIRY_DAYS finds no
\* valid row, calls the scraper once and stores one new row stamped with the
\* time of the save; a lookup made less than CACHE_EXPIRY_DAYS after a save
\* returns a row with the latest scraped_at of the property, not an older one.
C8_StaleRowReplaced ==
  [][\A h \in Handlers :
       /\ (/\ hpc[h] = "idle"
           /\ hpc'[h] = "looked"
           /\ RowsOf(property_id'[h]) # {}
           /\ now - LatestScrapedAt(property_id'[h]) > CACHE_EXPIRY_DAYS)
          => valuation'[h] = NoRow
       /\ (hpc[h] = "looked" /\ hpc'[h] # "looked" /\ valuation[h] = NoRow)
          => (hpc'[h] = "scraping" /\ valuations' = valuations)
       /\ (hpc[h] = "scraping" /\ hpc'[h] # "scraping")
          => /\ hpc'[h] = "idle"
             /\ valuations' = Append(valuations, [property_id |-> property_id[h],
                                                   scraped_at |-> now])
             /\ last_result' = [op |-> "return", property_id |-> property_id[h],
                                row |-> Len(valuations) + 1, scraped |-> TRUE]
       /\ (/\ hpc[h] = "idle"
           /\ hpc'[h] = "looked"
           /\ \E r \in RowsOf(property_id'[h]) :
                now - valuations[r].scraped_at < CACHE_EXPIRY_DAYS)
          => /\ valuation'[h] \in RowsOf(property_id'[h])
             /\ valuations[valuation'[h]].scraped_at
                  = LatestScrapedAt(property_id'[h])]_vars

\* A request has just stored a fresh row for a property whose earlier row
\* was stored more than CACHE_EXPIRY_DAYS before.
C8_Witness ==
  /\ last_result.op = "return"
  /\ last_result.scraped
  /\ valuations[last_result.row].scraped_at = now
  /\ \E r \in RowsOf(last_result.property_id) :
       now - valuations[r].scraped_at > CACHE_EXPIRY_DAYS

C10_SingleFlight ==
  \A h1, h2 \in Handlers :
    (h1 # h2 /\ hpc[h1] = "scraping" /\ hpc[h2] = "scraping")
      => property_id[h1] # property_id[h2]

\* C11: after sales for a key (suburb, bedrooms) have been fetched and
\* stored, a lookup for that key within CACHE_EXPIRY_DAYS of the store does
\* not miss: it returns the stored sales and the scraper is not called.
C11_StoredSalesServeNextLookup ==
  last_sales.op = "miss" =>
    ~\E r \in 1..Len(sales) :
        /\ sales[r].fetched_for = last_sales.key
        /\ now - sales[r].scraped_at < CACHE_EXPIRY_DAYS

\* The source strings of valuations read off a fetched page.
IsLive(source) ==
  source \in {"(Concurrent Browser - Live)", "(Virtual Browser - Live)",
              "TradeMe Property"}

\* The source strings in which the word "Estimated" occurs.
HasEstimatedMarker(source) ==
  source \in {"Estimated", "Estimated (Browser Error)",
              "Estimated (TradeMe unavailable)",
              "Estimated (Virtual Browser unavailable)"}

AllThreePresent(data) == data.low # None /\ data.mid # None /\ data.high # None

\* C12: every valuation a provider returns, from a live range, a live single
\* figure or the synthetic tier, has low <= mid <= high when the three are
\* present.
C12_LowMidHighOrdered ==
  (provided # NoProvided /\ AllThreePresent(provided.data)) =>
    /\ provided.data.low <= provided.data.mid
    /\ provided.data.mid <= provided.data.high

\* A live range whose page also showed a range in the wrong order, a live
\* single figure and a synthetic estimate have been returned.
C12_Witness ==
  /\ provided.provider = "ConcurrentBrowserManager"
  /\ provided.case = "page"
  /\ IsLive(provided.data.source)
  /\ provided.data.low = 612000
  /\ remembered.provider = "PropertyValuationProvider"
  /\ remembered.case = "unfetchable"
  /\ AllThreePresent(remembered.data)

\* C13: the synthetic tier is deterministic: two calls with the same address
\* or URL, made at any two points in time, return the same low, mid, high and
\* last-sale date.
C13_SyntheticDeterministic ==
  ( /\ provided # NoProvided /\ remembered # NoProvided
    /\ ~IsLive(provided.data.source) /\ ~IsLive(remembered.data.source)
    /\ provided.provider = remembered.provider
    /\ provided.key = remembered.key ) =>
      /\ provided.data.low = remembered.data.low
      /\ provided.data.mid = remembered.data.mid
      /\ provided.data.high = remembered.data.high
      /\ provided.data.last_sale_date = remembered.data.last_sale_date

\* C15: for an address whose listing URL is absent or cannot be fetched, the
\* valuation returned has low, mid and high, and its source contains
\* "Estimated".
C15_UnreachableIsMarkedEstimated ==
  provided.case \in {"no_url", "unfetchable"} =>
    /\ AllThreePresent(provided.data)
    /\ HasEstimatedMarker(provided.data.source)

\* C16: no valuation labelled live has mid <= 100,000 or mid >= 10,000,000.
C16_LiveWithinPlausibilityBounds ==
  (provided # NoProvided /\ IsLive(provided.data.source)) =>
    /\ provided.data.mid > 100000
    /\ provided.data.mid < 10000000

\* C14: the scroll loop of a page load is bounded, so whatever the page does,
\* a fetch that holds a slot eventually returns and frees it.
C14_FetchEventuallyReturns ==
  (\E t \in Tasks : InFlight(t)) ~> (\A t \in Tasks : ~InFlight(t))

\* C17: a batch returns exactly one result per input address, in input order:
\* result i carries the address of input i, whatever the order in which the
\* per-address coroutines ended.
C17_ResultsAlignedWithInputs ==
  bpc = "returned" =>
    /\ Len(gathered) = Len(addresses)
    /\ \A i \in 1..Len(addresses) : gathered[i].address = addresses[i].address

\* A batch of three with two different addresses returned after its
\* coroutines ended in the order 3, 1, 2.
C17_Witness ==
  /\ bpc = "returned"
  /\ Len(addresses) = 3
  /\ addresses[1].address # addresses[3].address
  /\ completion = <<3, 1, 2>>

\* The floor areas differ by at most 20% of the target.
WithinFifth(floor_area, target_floor_area) ==
  \/ floor_area = None \/ target_floor_area = None
  \/ /\ 100 * (floor_area - target_floor_area) <= 20 * target_floor_area
     /\ 100 * (target_floor_area - floor_area) <= 20 * target_floor_area

RECURSIVE SumOfPrices(_)
SumOfPrices(q) == IF q = <<>> THEN 0 ELSE Head(q).sale_price + SumOfPrices(Tail(q))

\* C19: the average price of a comparable set is the arithmetic mean of the
\* sale prices of all comparables, it is absent exactly when the set is
\* empty, and when it is absent the target value is 0.90 x capital value.
C19_AverageIsMeanOfAll ==
  m_op = "analyze" =>
    /\ (average = None) <=> (comparables = <<>>)
    /\ ( /\ comparables # <<>>
         /\ \A i \in 1..Len(comparables) : comparables[i].sale_price # None ) =>
           average * Len(comparables) = SumOfPrices(comparables)
    /\ (average = None /\ m_cv # None) =>
           (tv = (m_cv * 90) \div 100 /\ ~m_raised)

C21_MarginScorePiecewise ==
  scored.margin_score # None =>
    /\ scored.margin_ratio <= 0 => scored.margin_score = 0
    /\ scored.margin_ratio >= 2000 => scored.margin_score = 6000
    /\ (scored.margin_ratio > 0 /\ scored.margin_ratio < 2000) =>
         2000 * scored.margin_score = 6000 * scored.margin_ratio
    /\ scored.margin_score >= 0 /\ scored.margin_score <= 6000
    /\ margin_before # NoMargin =>
         /\ margin_before.margin_ratio <= scored.margin_ratio =>
              margin_before.margin_score <= scored.margin_score
         /\ margin_before.margin_ratio >= scored.margin_ratio =>
              margin_before.margin_score >= scored.margin_score

\* A margin of 25% was scored 6.0 after a margin of 19.99% was scored 5.997.
C21_Witness ==
  /\ scored.margin_ratio = 2500 /\ scored.margin_score = 6000
  /\ margin_before.margin_ratio = 1999 /\ margin_before.margin_score = 5997

\* The sub-scores as the final score counts them, 0 for one not computed.
SubScoreSum ==
  (IF scored.margin_score # None THEN scored.margin_score ELSE 0)
    + (IF scored.dom_score # None THEN scored.dom_score ELSE 0)

DomScoreAsStated ==
  scored.dom_score # None =>
    /\ scored.dp.days_on_market_avg <= 15 => scored.dom_score = 1500
    /\ scored.dp.days_on_market_avg >= 90 => scored.dom_score = 0
    /\ scored.dom_score >= 0 /\ scored.dom_score <= 1500

\* C22 as stated: the final score equals the sum of the margin and the
\* days-on-market sub-scores, clamped to [0, 10]; the days-on-market
\* sub-score is 1.5 for dom <= 15, 0 for dom >= 90 and within [0, 1.5]
\* otherwise; the final score never exceeds 7.5.
C22_FinalIsClampedSum ==
  scored.returned =>
    /\ scored.final_score =
         (IF SubScoreSum > 10000 THEN 10000 ELSE IF SubScoreSum < 0 THEN 0
          ELSE SubScoreSum)
    /\ DomScoreAsStated
    /\ scored.final_score <= 7500

\* C22 amended: the final score equals that clamped sum rounded to one
\* decimal place; the rest as stated.
C22_FinalIsRoundedClampedSum ==
  scored.returned =>
    /\ \E tenth \in 0..100 :
         /\ scored.final_score = 100 * tenth
         /\ 2 * (scored.final_score - SubScoreSum) <= 100
         /\ 2 * (SubScoreSum - scored.final_score) <= 100
    /\ DomScoreAsStated
    /\ scored.final_score <= 7500

\* A margin of 19.99% and 16 days on market were scored 5.997 + 1.48 and the
\* final score is 7.5.
C22_Witness ==
  /\ scored.returned
  /\ scored.margin_score = 5997 /\ scored.dom_score = 1480
  /\ scored.final_score = 7500

\* C30: BaseScraper.get enforces the rate limit once and makes at most 3
\* attempts; it returns the first successful response without further
\* attempts, sleeps between failed attempts, and re-raises after the third
\* consecutive failure, so it never returns a response after 3 failures.
C30_GetRetriesThreeTimes ==
  http_log.called =>
    LET n == http_log.attempts
        failed(i) == http_log.outcomes[i] = "RequestException"
    IN /\ Len(http_log.rate_limit_sleeps) = 1
       /\ n >= 1 /\ n <= 3
       /\ http_log.returned # http_log.raised
       /\ \A i \in 1..(n - 1) : failed(i)
       /\ http_log.returned <=> ~failed(n)
       /\ http_log.raised <=> (n = 3 /\ failed(3))
       /\ Len(http_log.retry_sleeps) = n - 1
       /\ (\A i \in 1..3 : failed(i)) => (http_log.raised /\ ~http_log.returned)

\* A get that failed twice, slept twice and returned the third response.
C30_Witness ==
  /\ http_log.called
  /\ http_log.outcomes = <<"RequestException", "RequestException", "ok">>
  /\ http_log.returned
  /\ Len(http_log.retry_sleeps) = 2

\* C28: the method of sale is never synthesized: an estimate returned by
\* ConcurrentBrowserManager after a fetch that delivered no document (so no
\* sale-method phrase was matched) has an empty method of sale.
C28_MethodOfSaleNeverSynthesized ==
  (/\ provided # NoProvided
   /\ provided.provider = "ConcurrentBrowserManager"
   /\ provided.case = "unfetchable")
    => provided.data.method_of_sale = NoneStr

\* C23: score_datapoints and PropertyFlipCalculator.calculate never raise:
\* for every combination of absent inputs, an absent purchase price or
\* target value included, a defined result is returned.
C23_NeverRaises ==
  /\ calc_raised = NoneStr
  /\ scored # NotScored => scored.returned

\* postTaxProfit(guess) with the default costs, in whole dollars.
PostTaxProfitAt(guess, tv_) ==
  LET rb == DEFAULT_RENOVATION_BUDGET
      le == DEFAULT_LEGAL_EXPENSES
      gross == tv_ - guess - rb - le - DEFAULT_COUNCIL_RATES - DEFAULT_INSURANCE
                 - Commission(tv_)
                 - InterestCost(guess + rb, DEFAULT_INTEREST_RATE,
                                DEFAULT_RENOVATION_MONTHS)
      pre == gross - (GstPortion(tv_) - GstPortion(guess + rb + le))
  IN PostTaxCents(pre) \div 100

\* The solver's rounds, with the adjustment a round makes as an argument:
\* it starts from 0.5 x targetValue, makes at most 100 rounds, returns the
\* guess as soon as its profit is within $100 of the target and else moves
\* the guess as told (where the move stays within [0, targetValue]), and
\* returns the guess it has after the 100th round.
SolverRoundsWith(Adjust(_, _)) ==
  /\ (solver.phase # "running" /\ solver'.phase = "running") =>
       /\ 2 * solver'.pp_guess = solver'.tv
       /\ solver'.rounds = 0
  /\ (solver.phase = "running" /\ solver' # solver) =>
       LET post == PostTaxProfitAt(solver.pp_guess, solver.tv)
           diff == post - TargetPostTax
           moved == Adjust(solver.pp_guess, diff)
       IN IF diff > -100 /\ diff < 100
            THEN /\ solver'.phase = "returned"
                 /\ solver'.result = solver.pp_guess
                 /\ solver'.rounds = solver.rounds
            ELSE /\ solver'.rounds = solver.rounds + 1
                 /\ solver'.rounds <= 100
                 /\ (moved >= 0 /\ moved <= solver.tv) => solver'.pp_guess = moved
                 /\ solver'.phase = "returned" <=> solver'.rounds = 100
                 /\ solver'.phase = "returned" => solver'.result = solver'.pp_guess
                 /\ solver'.phase # "returned" => solver'.phase = "running"

GuessMinus(guess, diff) == guess - (8 * diff) \div 10
GuessPlus(guess, diff) == guess + (8 * diff) \div 10

\* C26 as stated: the solver starts from guess = 0.5 x targetValue, runs at
\* most 100 rounds, in each round adjusts guess -= 0.8 x (postTaxProfit(guess)
\* - targetPostTaxProfit), stops as soon as the profit is within $100 of the
\* target, and in every case terminates returning a guess.
C26_SolverSubtractsAdjustment ==
  /\ [][SolverRoundsWith(GuessMinus)]_vars
  /\ (solver.phase = "running") ~> (solver.phase = "returned")

\* C26, amended: as stated, but each round adjusts guess += 0.8 x
\* (postTaxProfit(guess) - targetPostTaxProfit).
C26_SolverAddsAdjustment ==
  /\ [][SolverRoundsWith(GuessPlus)]_vars
  /\ (solver.phase = "running") ~> (solver.phase = "returned")

\* The solver returned a guess within $100 of the target after some
\* adjustments, and fewer than 100 rounds.
C26_Witness ==
  /\ solver.phase = "returned"
  /\ solver.rounds > 1 /\ solver.rounds < 100
  /\ 2 * solver.result # solver.tv
  /\ PostTaxProfitAt(solver.result, solver.tv) - TargetPostTax < 100
  /\ PostTaxProfitAt(solver.result, solver.tv) - TargetPostTax > -100

\* C27: for targetValue > 0 the guess used in every round and the
\* recommended purchase price finally returned lie within
\* [0.1 x targetValue, 0.9 x targetValue].
C27_GuessWithinTenthAndNineTenths ==
  (solver.phase # "idle" /\ solver.tv > 0) =>
    /\ 10 * solver.pp_guess >= solver.tv
    /\ 10 * solver.pp_guess <= 9 * solver.tv
    /\ solver.result # None =>
         /\ 10 * solver.result >= solver.tv
         /\ 10 * solver.result <= 9 * solver.tv

\* C25: worker sessions are created lazily and once: no session exists after
\* construction; a worker's session is created only in a step in which a
\* fetch enters on that worker, it is a fresh session, and it is the only
\* one the step creates; a fetch that enters on a worker that has a session
\* uses that session; and a worker's session stays until close_all_browsers
\* quits and drops it.
C25_SessionsLazyAndOnce ==
  /\ \A b \in Browsers : browser_pool[b] = NoDriver
  /\ [][\A b \in Browsers :
          /\ (browser_pool[b] = NoDriver /\ browser_pool'[b] # NoDriver) =>
               /\ \E k \in CallArgs :
                    /\ pending'[k] = pending[k] - 1
                    /\ k[2] \in {NoArg, b}
               /\ quit_calls'[browser_pool'[b]] = 0
               /\ \A t \in Tasks : driver[t] # browser_pool'[b]
               /\ \A b2 \in Browsers \ {b} : browser_pool'[b2] = browser_pool[b2]
          /\ (browser_pool[b] # NoDriver /\ browser_pool'[b] # browser_pool[b]) =>
               /\ browser_pool'[b] = NoDriver
               /\ last_close'.quits[b] = 1
          /\ \A t \in Tasks :
               (pc[t] = "idle" /\ pc'[t] = "settle" /\ browser_id'[t] = b
                  /\ browser_pool[b] # NoDriver) =>
                 driver'[t] = browser_pool[b]
     ]_vars

\* Two fetches are in flight on the same worker and hold the one session
\* the pool has for it.
C25_Witness ==
  \E t1, t2 \in Tasks :
    /\ t1 # t2
    /\ driver[t1] # NoDriver
    /\ driver[t1] = driver[t2]
    /\ browser_id[t1] = browser_id[t2]
    /\ browser_pool[browser_id[t1]] = driver[t1]

\* The execution slots there are: the free ones and those held.
SlotCount == semaphore + Cardinality({t \in Tasks : pc[t] # "idle"})

\* C24: an exception raised inside one fetch is confined to that call: the
\* step in which the fetch takes its except branch leaves the sessions of
\* the other workers and the slot count unchanged, and leaves every other
\* in-flight fetch where it is, with the session it holds unharmed.
C24_ExceptionIsConfined ==
  [][last_return'.failure # "" =>
       /\ Cardinality({t \in Tasks : pc'[t] # pc[t]}) <= 1
       /\ Cardinality({b \in Browsers : browser_pool'[b] # browser_pool[b]}) <= 1
       /\ \A b \in Browsers :
            browser_pool[b] # NoDriver => browser_pool'[b] = browser_pool[b]
       /\ SlotCount' = SlotCount
       /\ \A t \in Tasks :
            pc'[t] # "idle" =>
              /\ pc'[t] = pc[t]
              /\ driver'[t] = driver[t]
              /\ browser_id'[t] = browser_id[t]
              /\ call'[t] = call[t]
              /\ wait_left'[t] = wait_left[t]
              /\ driver[t] # NoDriver =>
                   quit_calls'[driver[t]] = quit_calls[driver[t]]
  ]_vars

\* A fetch raised on a worker while another fetch was in flight, a later
\* fetch on that worker returned a live result, and the other fetch is
\* still in flight on its session.
C24_Witness ==
  /\ isolation.live_after # {}
  /\ last_return.returned
  /\ last_return.data.source = "(Concurrent Browser - Live)"
  /\ \E t \in Tasks : pc[t] = "final_scroll" /\ driver[t] # NoDriver

\* C29: once close_all_browsers has returned and every fetch that was in
\* flight or queued at that time has returned, no worker session remains
\* initialized.
C29_NoSessionAfterShutdown ==
  (/\ shutdown
   /\ \A k \in CallArgs : pending[k] = 0
   /\ \A t \in Tasks : pc[t] = "idle")
    => \A b \in Browsers : browser_pool[b] = NoDriver
====
